---- MODULE Spec2Model ----
(***************************************************************************)
(* Watering-state reconciler and adaptive poller of the rachio_local       *)
(* integration: RachioSmartHoseTimerHandler (smart_hose_timer.py),         *)
(* RachioControllerHandler (controller.py) and get_update_interval         *)
(* (utils.py).  One device handler is modelled at a time; its class is     *)
(* fixed by `type` as in async_setup_entry.  Time is in seconds.           *)
(***************************************************************************)
EXTENDS Integers, Sequences, FiniteSets, TLC

VARIABLES
    type,                       \* device_type of the handler
    now,                        \* wall clock (time.time() / datetime.now())
    pc,                         \* position of the in-flight poll cycle
    pc_service,                 \* position of the create_program service's poll
    zones,                      \* self.zones as last fetched
    base_station_connected,     \* hose timer: base station reported connected
    status,                     \* self.status
    running_zones,              \* self.running_zones   (dict id -> entry)
    running_schedules,          \* self.running_schedules (dict id -> entry)
    _pending_start,             \* self._pending_start  (dict id -> expiry)
    _force_stopped,             \* hose timer: dict valve -> time of stop
    _last_watering_completed,   \* hose timer: dict valve -> completion time
    _expected_end_times,        \* hose timer: dict valve -> expected end
    schedules,                  \* self.schedules (list of programs / rules)
    valve_run_summaries,        \* hose timer: dict valve -> previous/next run
    _program_details,           \* hose timer: cache of program details
    _deleted_programs,          \* hose timer: set of program ids
    _first_update_complete,     \* hose timer: first poll has fetched details
    api_rate_limit,             \* last X-RateLimit-Limit seen
    api_rate_remaining,         \* last X-RateLimit-Remaining seen
    api_rate_reset,             \* last X-RateLimit-Reset seen
    idle_polling_interval,      \* configurable, seconds
    active_polling_interval,    \* configurable, seconds
    num_devices,                \* coordinator.num_devices
    update_interval,            \* coordinator.update_interval, seconds
    _fast_poll_count,           \* handler._fast_poll_count
    last                        \* the operation that has just returned, if any

\* the fields the valve and zone operations touch
zoneVars == <<running_zones, _pending_start, _force_stopped,
              _last_watering_completed, _expected_end_times>>
\* what a poll learns of the device
deviceVars == <<zones, base_station_connected, status>>
\* programs of the hose timer, schedule rules of the controller
programVars == <<schedules, valve_run_summaries, _program_details,
                 _deleted_programs, _first_update_complete>>
rateVars == <<api_rate_limit, api_rate_remaining, api_rate_reset>>
settingVars == <<idle_polling_interval, active_polling_interval, num_devices>>
pollerVars == <<update_interval, _fast_poll_count>>

vars == <<type, now, pc, pc_service, zoneVars, running_schedules, deviceVars, programVars,
          rateVars, settingVars, pollerVars, last>>

-----------------------------------------------------------------------------
(* Bounds of the model *)

\* the clock starts at Epoch and runs for MaxTime seconds in steps of TickSeconds
Epoch == 7200
MaxTime == 90
TickSeconds == 30

Zones == {"Z1"}
Schedules == {"P1"}
Ids == Zones \cup Schedules

\* durations a caller passes to start(z, d)
StartDurations == {30, 300}

-----------------------------------------------------------------------------
(* Program constants *)

OPTIMISTIC_WINDOW == 60
HOSE_PENDING_WINDOW == 60
FORCE_STOP_WINDOW == 30
END_TIME_BUFFER == 30
RECENT_ACTIVITY_WINDOW == 120

CONTROLLER == "CONTROLLER"
SMART_HOSE_TIMER == "SMART_HOSE_TIMER"

-----------------------------------------------------------------------------
(* Python dict helpers *)

EmptyDict == [x \in {} |-> 0]

\* d[k] = v
Put(d, k, v) == [x \in (DOMAIN d) \cup {k} |-> IF x = k THEN v ELSE d[x]]

\* d.pop(k, None)
Pop(d, k) == [x \in (DOMAIN d) \ {k} |-> d[x]]

\* {k: d[k] for k in d if k in S}
Restrict(d, S) == [x \in (DOMAIN d) \cap S |-> d[x]]

Max(a, b) == IF a >= b THEN a ELSE b
Min(a, b) == IF a <= b THEN a ELSE b


-----------------------------------------------------------------------------
(* Backend data shapes *)

\* An ISO-8601 timestamp string of the backend: well formed (denoting time
\* t, with a zone designator) or malformed (datetime.fromisoformat raises
\* ValueError).
Iso(t) == [wf |-> TRUE, t |-> t]
BadIso == [wf |-> FALSE, t |-> 0]

NoProgram == "None"

\* lastWateringAction of a valve: {} or {start, durationSeconds, programId}
NoAction == EmptyDict
Action(s, d, p) == [start |-> s, durationSeconds |-> d, programId |-> p]

\* one valve of the listValves response
Valve(c, a) == [connected |-> c, lastWateringAction |-> a]

\* an HTTP response to a PUT: its status and whether its body parses as JSON
Resp(st, js) == [status |-> st, json |-> js]
Responses == {Resp(204, FALSE), Resp(200, FALSE), Resp(202, TRUE),
              Resp(202, FALSE), Resp(500, FALSE)}

\* resp.raise_for_status() raises
RaisesForStatus(resp) == resp.status >= 400

-----------------------------------------------------------------------------
(* RachioSmartHoseTimerHandler: start, stop, is_zone_optimistically_on *)

\* _is_valve_connected
IsValveConnected(zs, z) == z \in DOMAIN zs /\ zs[z].connected

\* the intent registered before the response's status is looked at
HoseStartRegistersAlways(resp) == resp.status >= 0

\* the branch of async_start_zone that registers the intent
HoseStartAccepted(resp) ==
    \/ resp.status \in {200, 204}
    \/ (~RaisesForStatus(resp) /\ resp.json)

HoseStartZone(z, d, resp) ==
    /\ type = SMART_HOSE_TIMER
    /\ IF HoseStartAccepted(resp)
       THEN /\ _pending_start' = Put(_pending_start, z, now + HOSE_PENDING_WINDOW)
            /\ running_zones' =
                 IF base_station_connected /\ IsValveConnected(zones, z)
                 THEN Put(running_zones, z, [id |-> z, remaining |-> d])
                 ELSE running_zones
       ELSE UNCHANGED <<_pending_start, running_zones>>
    /\ last' = [op |-> "start", id |-> z,
                accepted |-> HoseStartAccepted(resp),
                raised |-> RaisesForStatus(resp)]
    /\ UNCHANGED <<type, pc_service, now, pc, running_schedules, _force_stopped,
                   _last_watering_completed, _expected_end_times, deviceVars,
                   programVars, rateVars, settingVars, pollerVars>>

\* async_stop_zone, lines 1186-1203: outside the pending window the valve's
\* lastWateringAction must have started within the last two minutes
HasRecentActivity(zs, z, t) ==
    /\ z \in DOMAIN zs
    /\ "start" \in DOMAIN zs[z].lastWateringAction
    /\ zs[z].lastWateringAction.start.wf
    /\ 0 <= t - zs[z].lastWateringAction.start.t
    /\ t - zs[z].lastWateringAction.start.t <= RECENT_ACTIVITY_WINDOW

PendingValid(ps, id, t) == id \in DOMAIN ps /\ ps[id] > t

ShouldRecord(z) ==
    \/ z \in DOMAIN running_zones
    \/ /\ z \in DOMAIN _pending_start
       /\ base_station_connected
       /\ IsValveConnected(zones, z)
       /\ (PendingValid(_pending_start, z, now) \/ HasRecentActivity(zones, z, now))

\* the completion map after stop(z)
StopCompletion(z) ==
    IF ShouldRecord(z)
    THEN Put(_last_watering_completed, z, now)
    ELSE _last_watering_completed

\* a variant of the stop that sends the request first and changes the local
\* state only when the request did not fail
HoseStopZoneAfterResponse(z, resp) ==
    /\ type = SMART_HOSE_TIMER
    /\ IF RaisesForStatus(resp)
       THEN UNCHANGED <<_force_stopped, _last_watering_completed,
                        running_zones, _pending_start>>
       ELSE /\ _force_stopped' = Put(_force_stopped, z, now)
            /\ _last_watering_completed' = StopCompletion(z)
            /\ running_zones' = Pop(running_zones, z)
            /\ _pending_start' = Pop(_pending_start, z)
    /\ last' = [op |-> "stop", id |-> z,
                raised |-> RaisesForStatus(resp),
                pendingBefore |-> PendingValid(_pending_start, z, now)]
    /\ UNCHANGED <<type, pc_service, now, pc, running_schedules, _expected_end_times,
                   deviceVars, programVars, rateVars, settingVars, pollerVars>>

HoseStopZone(z, resp) ==
    /\ type = SMART_HOSE_TIMER
    /\ _force_stopped' = Put(_force_stopped, z, now)
    /\ _last_watering_completed' = StopCompletion(z)
    /\ running_zones' = Pop(running_zones, z)
    /\ _pending_start' = Pop(_pending_start, z)
    /\ last' = [op |-> "stop", id |-> z,
                raised |-> RaisesForStatus(resp),
                pendingBefore |-> PendingValid(_pending_start, z, now)]
    /\ UNCHANGED <<type, pc_service, now, pc, running_schedules, _expected_end_times,
                   deviceVars, programVars, rateVars, settingVars, pollerVars>>

\* a variant in which a recorded stop always wins, whatever came after it
HoseIsOnStopWins(z) ==
    z \notin DOMAIN _force_stopped
    /\ (z \in DOMAIN running_zones \/ PendingValid(_pending_start, z, now))

HoseIsOn(z) ==
    LET has_pending_start == PendingValid(_pending_start, z, now)
    IN  IF z \in DOMAIN _force_stopped
        THEN IF has_pending_start
             THEN TRUE
             ELSE FALSE
        ELSE z \in DOMAIN running_zones \/ has_pending_start

HoseStartSchedule(p, resp) ==
    /\ type = SMART_HOSE_TIMER
    /\ _pending_start' =
         IF HoseStartAccepted(resp)
         THEN Put(_pending_start, p, now + HOSE_PENDING_WINDOW)
         ELSE _pending_start
    /\ last' = [op |-> "start_schedule", id |-> p,
                accepted |-> HoseStartAccepted(resp),
                raised |-> RaisesForStatus(resp)]
    /\ UNCHANGED <<type, pc_service, now, pc, running_zones, running_schedules,
                   _force_stopped, _last_watering_completed,
                   _expected_end_times, deviceVars, programVars, rateVars,
                   settingVars, pollerVars>>

-----------------------------------------------------------------------------
(* RachioSmartHoseTimerHandler.async_update: running valves (lines 811-939) *)
(* zs: self.zones, t: current time, fs: _force_stopped,                     *)
(* lwc: _last_watering_completed, eet: _expected_end_times,                 *)
(* rz: self.running_zones before the cycle, ps: _pending_start              *)

\* line 829, and the parse of lines 835-842 succeeding
HasParsedAction(v) ==
    /\ "start" \in DOMAIN v.lastWateringAction
    /\ "durationSeconds" \in DOMAIN v.lastWateringAction
    /\ v.lastWateringAction.durationSeconds # 0
    /\ v.lastWateringAction.start.wf

StartTime(v) == v.lastWateringAction.start.t
EndTime(v) == StartTime(v) + v.lastWateringAction.durationSeconds
EndTimeBuffer(v) == EndTime(v) + END_TIME_BUFFER

\* a variant whose window includes its end
ForceStopIgnoresInclusive(z, t, fs) ==
    z \in DOMAIN fs /\ t - fs[z] <= FORCE_STOP_WINDOW

\* lines 856-862: force stopped less than 30 s ago, the API data is ignored
ForceStopIgnores(z, t, fs) ==
    z \in DOMAIN fs /\ t - fs[z] < FORCE_STOP_WINDOW

\* line 880
InWindow(v, t) == StartTime(v) <= t /\ t <= EndTimeBuffer(v)

\* lines 870-877
StaleSkips(z, v, t, lwc) ==
    z \in DOMAIN lwc /\ EndTime(v) <= lwc[z] /\ InWindow(v, t)

\* the valves whose lastWateringAction reaches line 879
Considered(zs, t, fs, lwc) ==
    {z \in DOMAIN zs : /\ HasParsedAction(zs[z])
                       /\ ~ForceStopIgnores(z, t, fs)
                       /\ ~StaleSkips(z, zs[z], t, lwc)}

\* a variant whose remaining runs to the end of the buffer
ApiRunningZonesToBuffer(zs, t, fs, lwc) ==
    [z \in {x \in Considered(zs, t, fs, lwc) : InWindow(zs[x], t)} |->
        [id |-> z,
         remaining |-> Max(0, EndTimeBuffer(zs[z]) - t),
         start_time |-> StartTime(zs[z]),
         duration |-> zs[z].lastWateringAction.durationSeconds,
         program_id |-> zs[z].lastWateringAction.programId]]

\* lines 880-889: the backend-derived running set
ApiRunningZones(zs, t, fs, lwc) ==
    [z \in {x \in Considered(zs, t, fs, lwc) : InWindow(zs[x], t)} |->
        [id |-> z,
         remaining |-> Max(0, EndTime(zs[z]) - t),
         start_time |-> StartTime(zs[z]),
         duration |-> zs[z].lastWateringAction.durationSeconds,
         program_id |-> zs[z].lastWateringAction.programId]]

\* lines 863-865: an old force stop record is cleared
ForceStoppedAfterLoop(zs, t, fs) ==
    Restrict(fs, {z \in DOMAIN fs :
                    ~(z \in DOMAIN zs /\ HasParsedAction(zs[z])
                      /\ ~ForceStopIgnores(z, t, fs))})

\* a variant that overwrites whatever completion is recorded
RecordsAlways(z, end, lwc) == TRUE

\* lines 894-899: the completion recorded for a finished action
RecordsCompletion(z, end, lwc) == z \notin DOMAIN lwc \/ lwc[z] < end

CompletedAfterLoop(zs, t, fs, lwc) ==
    LET done == {z \in Considered(zs, t, fs, lwc) :
                    /\ t > EndTimeBuffer(zs[z])
                    /\ RecordsCompletion(z, EndTime(zs[z]), lwc)}
    IN  [z \in (DOMAIN lwc) \cup done |->
            IF z \in done THEN EndTime(zs[z]) ELSE lwc[z]]

\* line 891
ExpectedAfterLoop(zs, t, fs, lwc, eet) ==
    LET api == ApiRunningZones(zs, t, fs, lwc)
    IN  [z \in (DOMAIN eet) \cup (DOMAIN api) |->
            IF z \in DOMAIN api THEN EndTime(zs[z]) ELSE eet[z]]

\* a variant that keeps an optimistic entry for as long as its intent is stored
KeepsWhileStored(z, api, ps, t) == z \notin DOMAIN api /\ z \in DOMAIN ps

\* a variant that still keeps an optimistic entry at the moment its intent
\* expires
KeepsOptimisticAtExpiry(z, api, ps, t) ==
    z \notin DOMAIN api /\ z \in DOMAIN ps /\ ps[z] >= t

\* lines 910-918: an optimistic entry is kept while its intent is pending
KeepsOptimistic(z, api, ps, t) ==
    z \notin DOMAIN api /\ z \in DOMAIN ps /\ ps[z] > t

MergedRunningZones(zs, t, fs, lwc, rz, ps) ==
    LET api == ApiRunningZones(zs, t, fs, lwc)
        kept == {z \in DOMAIN rz : KeepsOptimistic(z, api, ps, t)}
    IN  [z \in (DOMAIN api) \cup kept |->
            IF z \in DOMAIN api THEN api[z] ELSE rz[z]]

\* lines 925-934: completions inferred from the expected end times
CompletedAfterPoll(zs, t, fs, lwc, eet, rz, ps) ==
    LET lwc1 == CompletedAfterLoop(zs, t, fs, lwc)
        eet1 == ExpectedAfterLoop(zs, t, fs, lwc, eet)
        new == MergedRunningZones(zs, t, fs, lwc, rz, ps)
        inferred == {z \in DOMAIN rz :
                        /\ z \notin DOMAIN new
                        /\ z \in DOMAIN eet1
                        /\ RecordsCompletion(z, eet1[z], lwc1)}
    IN  [z \in (DOMAIN lwc1) \cup inferred |->
            IF z \in inferred THEN eet1[z] ELSE lwc1[z]]

\* lines 934-939
ExpectedAfterPoll(zs, t, fs, lwc, eet, rz, ps) ==
    Restrict(ExpectedAfterLoop(zs, t, fs, lwc, eet),
             DOMAIN MergedRunningZones(zs, t, fs, lwc, rz, ps))

-----------------------------------------------------------------------------
(* Insertion-ordered dicts and lists of records carrying an id *)

Ids_(od) == {od[i].id : i \in 1..Len(od)}
IndexOf(od, k) == CHOOSE i \in 1..Len(od) : od[i].id = k
Lookup(od, k) == od[IndexOf(od, k)]
OPut(od, e) ==
    IF e.id \in Ids_(od) THEN [od EXCEPT ![IndexOf(od, e.id)] = e]
    ELSE Append(od, e)
ODel(od, k) == SelectSeq(od, LAMBDA e : e.id # k)

RECURSIVE Concat(_)
Concat(ss) == IF ss = <<>> THEN <<>> ELSE Head(ss) \o Concat(Tail(ss))

SeqRange(sq) == {sq[i] : i \in 1..Len(sq)}

-----------------------------------------------------------------------------
(* RachioSmartHoseTimerHandler.async_update: programs (lines 238-510)       *)

\* getValveDayViews response shapes
ValveRun(z, start) == [valveId |-> z, start |-> start]
ProgramRun(p, vruns) == [programId |-> p, valveRunSummaries |-> vruns]
QuickRun(vruns) == [valveRunSummaries |-> vruns]
DayView(pruns, qruns) ==
    [valveProgramRunSummaries |-> pruns, valveQuickRunSummaries |-> qruns]
\* data is None (request failed, 404) or a dict with valveDayViews
NoData == [ok |-> FALSE]
Summary(views) == [ok |-> TRUE, valveDayViews |-> views]

DayViews(data) == IF data.ok THEN data.valveDayViews ELSE <<>>

\* every program run of the response, in the order the loops meet them
ProgramRunsOf(data) ==
    Concat([i \in 1..Len(DayViews(data)) |->
              DayViews(data)[i].valveProgramRunSummaries])

\* getProgramV2 response: None, or {"program": {...}}
\* _fetch_program_details returns None: the request failed, or (NotFound) it
\* was answered 404
NoDetails == [ok |-> FALSE]
NotFound == [ok |-> FALSE, not_found |-> TRUE]
Details(en, assigned, planned) ==
    [ok |-> TRUE, enabled |-> en, assignments |-> assigned, plannedRuns |-> planned]

\* lines 302-316: a program first met in the summary
SummaryProgram(r, cache) ==
    [id |-> r.programId,
     valveIds |-> {r.valveRunSummaries[i].valveId : i \in 1..Len(r.valveRunSummaries)},
     active |-> FALSE,
     enabled |-> IF r.programId \in Ids_(cache)
                 THEN Lookup(cache, r.programId).details.enabled
                 ELSE TRUE,
     plannedRuns |-> <<>>]

RECURSIVE ProgramsFromRuns(_, _, _)
ProgramsFromRuns(runs, cache, acc) ==
    IF runs = <<>> THEN acc
    ELSE LET r == Head(runs)
         IN  ProgramsFromRuns(Tail(runs), cache,
                IF r.programId = NoProgram \/ r.programId \in Ids_(acc)
                THEN acc
                ELSE Append(acc, SummaryProgram(r, cache)))

\* lines 473-496: a cached program that the summary no longer lists
CachedProgram(e) ==
    [id |-> e.id,
     valveIds |-> e.details.assignments,
     active |-> FALSE,
     enabled |-> e.details.enabled,
     plannedRuns |-> e.details.plannedRuns]

RECURSIVE WithCachedPrograms(_, _, _)
WithCachedPrograms(cache, deleted, acc) ==
    IF cache = <<>> THEN acc
    ELSE LET e == Head(cache)
         IN  WithCachedPrograms(Tail(cache), deleted,
                IF e.id \in Ids_(acc) \/ e.id \in deleted
                THEN acc
                ELSE Append(acc, CachedProgram(e)))

\* a variant that lets the programs marked deleted through
SchedulesFromSummaryUnfiltered(data, cache, deleted) ==
    WithCachedPrograms(cache, deleted,
        ProgramsFromRuns(ProgramRunsOf(data), cache, <<>>))

\* lines 463-510: self.schedules before the details are fetched
SchedulesFromSummary(data, cache, deleted) ==
    LET programs_map ==
            WithCachedPrograms(cache, deleted,
                ProgramsFromRuns(ProgramRunsOf(data), cache, <<>>))
    IN  SelectSeq(programs_map, LAMBDA q : q.id \notin deleted)

-----------------------------------------------------------------------------
(* Valve run summaries (lines 283-438) *)

SOURCE_PROGRAM == "program"
SOURCE_QUICK_RUN == "quick_run"

\* the valve runs of one day view in the order lines 290-418 meet them; a run
\* whose start does not parse leaves only its valve's key (lines 370-371)
RunInfo(vr, source, p, t) ==
    [valveId |-> vr.valveId, parsed |-> vr.start.wf, start |-> vr.start.t,
     source |-> source, program_id |-> p, is_future |-> vr.start.t > t]

ProgramValveRuns(pruns, t) ==
    Concat([i \in 1..Len(pruns) |->
              IF pruns[i].programId = NoProgram THEN <<>>
              ELSE [j \in 1..Len(pruns[i].valveRunSummaries) |->
                      RunInfo(pruns[i].valveRunSummaries[j], SOURCE_PROGRAM,
                              pruns[i].programId, t)]])

QuickValveRuns(qruns, t) ==
    Concat([i \in 1..Len(qruns) |->
              [j \in 1..Len(qruns[i].valveRunSummaries) |->
                  RunInfo(qruns[i].valveRunSummaries[j], SOURCE_QUICK_RUN,
                          NoProgram, t)]])

ValveRunHistory(data, t) ==
    Concat([i \in 1..Len(DayViews(data)) |->
              ProgramValveRuns(DayViews(data)[i].valveProgramRunSummaries, t)
              \o QuickValveRuns(DayViews(data)[i].valveQuickRunSummaries, t)])

NoRun == EmptyDict
StoredRun(r) == [start |-> r.start, source |-> r.source, program_id |-> r.program_id]

\* lines 423-433 on the runs of one valve: after the stable sort by start and
\* the reversed scan, the latest past run (of equal starts, the one met last)
PreviousRun(runs) ==
    LET past == {i \in 1..Len(runs) : ~runs[i].is_future}
    IN  IF past = {} THEN NoRun
        ELSE StoredRun(runs[CHOOSE i \in past : \A j \in past :
                \/ runs[j].start < runs[i].start
                \/ (runs[j].start = runs[i].start /\ j <= i)])

\* the earliest future run (of equal starts, the one met last)
NextRun(runs) ==
    LET future == {i \in 1..Len(runs) : runs[i].is_future}
    IN  IF future = {} THEN NoRun
        ELSE StoredRun(runs[CHOOSE i \in future : \A j \in future :
                \/ runs[j].start > runs[i].start
                \/ (runs[j].start = runs[i].start /\ j <= i)])

\* lines 421-438: only the valves of this response are rewritten
ValveRunSummariesAfter(vrs, data, t) ==
    LET hist == ValveRunHistory(data, t)
        seen == {hist[i].valveId : i \in 1..Len(hist)}
        runsOf(z) == SelectSeq(hist, LAMBDA r : r.valveId = z /\ r.parsed)
    IN  [z \in (DOMAIN vrs) \cup seen |->
            IF z \in seen
            THEN [previous_run |-> PreviousRun(runsOf(z)),
                  next_run |-> NextRun(runsOf(z))]
            ELSE vrs[z]]

-----------------------------------------------------------------------------
(* Program details (lines 591-763, _fetch_program_details) *)

PROGRAM_DETAILS_REFRESH_INTERVAL == 3600

CacheEntry(id, d, t) == [id |-> id, details |-> d, last_fetched |-> t]

\* lines 613-627
NeedsFetch(q, cache, first_done, t) ==
    \/ ~first_done
    \/ q.id \notin Ids_(cache)
    \/ t - Lookup(cache, q.id).last_fetched >= PROGRAM_DETAILS_REFRESH_INTERVAL

\* lines 636-658 and 691-715
ApplyDetails(q, d) ==
    [q EXCEPT !.enabled = d.enabled,
              !.plannedRuns = d.plannedRuns,
              !.valveIds = IF d.assignments # {} THEN d.assignments ELSE @]

\* a details lookup that returns None: line 726
FetchFailed(q, cache, first_done, t, fetch) ==
    NeedsFetch(q, cache, first_done, t) /\ ~fetch[q.id].ok

\* self.schedules after lines 600-758
SchedulesAfterDetails(scheds, cache, first_done, t, fetch) ==
    LET merged == [i \in 1..Len(scheds) |->
                     IF NeedsFetch(scheds[i], cache, first_done, t)
                     THEN IF fetch[scheds[i].id].ok
                          THEN ApplyDetails(scheds[i], fetch[scheds[i].id])
                          ELSE scheds[i]
                     ELSE ApplyDetails(scheds[i], Lookup(cache, scheds[i].id).details)]
    IN  SelectSeq(merged, LAMBDA q : ~FetchFailed(q, cache, first_done, t, fetch))

RECURSIVE CacheAfterDetails(_, _, _, _, _, _)
CacheAfterDetails(scheds, cache0, first_done, t, fetch, cache) ==
    IF scheds = <<>> THEN cache
    ELSE LET q == Head(scheds)
         IN  CacheAfterDetails(Tail(scheds), cache0, first_done, t, fetch,
                IF ~NeedsFetch(q, cache0, first_done, t) THEN cache
                ELSE IF fetch[q.id].ok
                     THEN OPut(cache, CacheEntry(q.id, fetch[q.id], t))
                     ELSE ODel(cache, q.id))

\* lines 732-752
DeletedAfterDetails(scheds, cache, first_done, t, fetch, deleted) ==
    deleted \cup {scheds[i].id : i \in
                    {j \in 1..Len(scheds) :
                        FetchFailed(scheds[j], cache, first_done, t, fetch)}}

\* the details lookups of a cycle: the programs the summary listed, those
\* whose lookup was answered 404, and those whose lookup failed otherwise
NoLookups == [listed |-> {}, not_found |-> {}, transient |-> {}]
Lookups(data, scheds, cache, first_done, t, fetch) ==
    LET failed == {scheds[i].id : i \in
                     {j \in 1..Len(scheds) :
                         FetchFailed(scheds[j], cache, first_done, t, fetch)}}
        gone == {id \in failed : "not_found" \in DOMAIN fetch[id]}
    IN  [listed |-> Ids_(ProgramsFromRuns(ProgramRunsOf(data), cache, <<>>)),
         not_found |-> gone,
         transient |-> failed \ gone]

-----------------------------------------------------------------------------
(* Program attribution and running programs (lines 941-1106) *)

PREVIOUS_RUN_TOLERANCE == 3600
NEXT_RUN_TOLERANCE == 1800
PLANNED_RUN_TOLERANCE == 3600

Abs(x) == IF x < 0 THEN -x ELSE x

\* lines 1037-1043: a planned start is given by year, month, day, hour and
\* minute, so planned starts are whole minutes
MINUTE == 60

\* a plannedRuns entry: its start carries year, month and day, or is unusable
Planned(t) == [wf |-> TRUE, t |-> t]

\* a variant that accepts only half of the tolerance
RunMatchesHalfTolerance(run, valve_start_time, tolerance) ==
    /\ run # NoRun
    /\ run.source = SOURCE_PROGRAM
    /\ 2 * Abs(run.start - valve_start_time) < tolerance
    /\ run.program_id # NoProgram

\* a variant that also accepts a run exactly the tolerance away
RunMatchesInclusive(run, valve_start_time, tolerance) ==
    /\ run # NoRun
    /\ run.source = SOURCE_PROGRAM
    /\ Abs(run.start - valve_start_time) <= tolerance
    /\ run.program_id # NoProgram

\* lines 979-990 and 999-1009: a run of the summary matches the valve's start
RunMatches(run, valve_start_time, tolerance) ==
    /\ run # NoRun
    /\ run.source = SOURCE_PROGRAM
    /\ Abs(run.start - valve_start_time) < tolerance
    /\ run.program_id # NoProgram

\* lines 1023-1052: (program, planned run) pairs in the order of the loops
PlannedCandidates(z, valve_start_time, scheds) ==
    Concat([i \in 1..Len(scheds) |->
              IF z \notin scheds[i].valveIds THEN <<>>
              ELSE LET usable == SelectSeq(scheds[i].plannedRuns, LAMBDA r : r.wf)
                   IN  [j \in 1..Len(usable) |->
                          [id |-> scheds[i].id,
                           diff |-> Abs(usable[j].t - valve_start_time)]]])

\* a variant that keeps the last candidate of least difference
BestCandidateLast(cands) ==
    cands[CHOOSE i \in 1..Len(cands) : \A j \in 1..Len(cands) :
            \/ cands[j].diff > cands[i].diff
            \/ (cands[j].diff = cands[i].diff /\ j <= i)]

\* the first candidate of least difference (line 1050 compares with <)
BestCandidate(cands) ==
    cands[CHOOSE i \in 1..Len(cands) : \A j \in 1..Len(cands) :
            \/ cands[j].diff > cands[i].diff
            \/ (cands[j].diff = cands[i].diff /\ i <= j)]

\* a variant that answers from the handler's memory of earlier polls: the
\* first program listing the valve, and only while no poll has completed
PlannedRunMatchFirstPoll(z, valve_start_time, scheds) ==
    LET listing == {i \in 1..Len(scheds) : z \in scheds[i].valveIds}
    IN  IF ~_first_update_complete /\ listing # {}
        THEN scheds[CHOOSE i \in listing : \A j \in listing : i <= j].id
        ELSE NoProgram

\* lines 1020-1060
PlannedRunMatch(z, valve_start_time, scheds) ==
    LET cands == PlannedCandidates(z, valve_start_time, scheds)
    IN  IF cands # <<>> /\ BestCandidate(cands).diff < PLANNED_RUN_TOLERANCE
        THEN BestCandidate(cands).id
        ELSE NoProgram

\* a variant that asks the run summary before the direct program id
AttributedProgramSummaryFirst(z, zone_data, vrs, scheds) ==
    IF "start_time" \notin DOMAIN zone_data THEN NoProgram
    ELSE IF z \in DOMAIN vrs
            /\ RunMatches(vrs[z].previous_run, zone_data.start_time, PREVIOUS_RUN_TOLERANCE)
         THEN vrs[z].previous_run.program_id
    ELSE IF z \in DOMAIN vrs
            /\ RunMatches(vrs[z].next_run, zone_data.start_time, NEXT_RUN_TOLERANCE)
         THEN vrs[z].next_run.program_id
    ELSE IF zone_data.program_id # NoProgram THEN zone_data.program_id
    ELSE PlannedRunMatch(z, zone_data.start_time, scheds)

\* lines 954-1060 for one running valve: its program, or NoProgram when the
\* valve gets no entry in valve_to_program_map
AttributedProgram(z, zone_data, vrs, scheds) ==
    IF "start_time" \notin DOMAIN zone_data THEN NoProgram
    ELSE IF zone_data.program_id # NoProgram THEN zone_data.program_id
    ELSE IF z \in DOMAIN vrs
            /\ RunMatches(vrs[z].previous_run, zone_data.start_time, PREVIOUS_RUN_TOLERANCE)
         THEN vrs[z].previous_run.program_id
    ELSE IF z \in DOMAIN vrs
            /\ RunMatches(vrs[z].next_run, zone_data.start_time, NEXT_RUN_TOLERANCE)
         THEN vrs[z].next_run.program_id
    ELSE PlannedRunMatch(z, zone_data.start_time, scheds)

RunningValvesAny(q, rz, vrs, scheds) == q.valveIds \cap DOMAIN rz

\* lines 1076-1081
RunningValvesOf(q, rz, vrs, scheds) ==
    {z \in q.valveIds \cap DOMAIN rz :
        AttributedProgram(z, rz[z], vrs, scheds) = q.id}

SetMax(S) == CHOOSE x \in S : \A y \in S : y <= x

\* lines 1095-1100
ProgramRemaining(q, rz, vrs, scheds) ==
    Max(0, SetMax({rz[z].remaining : z \in RunningValvesOf(q, rz, vrs, scheds)}))

\* lines 1069-1106: self.running_schedules
RunningSchedulesOf(rz, vrs, scheds) ==
    LET running == {i \in 1..Len(scheds) :
                      RunningValvesOf(scheds[i], rz, vrs, scheds) # {}}
    IN  [p \in {scheds[i].id : i \in running} |->
            LET q == scheds[CHOOSE i \in running :
                             scheds[i].id = p /\ \A j \in running :
                                scheds[j].id = p => j <= i]
            IN  [id |-> p, valveIds |-> q.valveIds, active |-> TRUE,
                 remaining |-> ProgramRemaining(q, rz, vrs, scheds)]]

\* line 1091: every program's active flag
SchedulesWithActive(rz, vrs, scheds) ==
    [i \in 1..Len(scheds) |->
        [scheds[i] EXCEPT !.active =
            RunningValvesOf(scheds[i], rz, vrs, scheds) # {}]]

-----------------------------------------------------------------------------
(* Rate-limit headers (_process_response, RachioControllerHandler._make_request) *)

\* the stored value of a header never seen is None
Unset == [set |-> FALSE]
Known(v) == [set |-> TRUE, v |-> v]

\* X-RateLimit-Reset as an HTTP date or as epoch seconds, both denoting time t
HttpDate(t) == [form |-> "http_date", t |-> t]
EpochSeconds(t) == [form |-> "epoch", t |-> t]

\* the headers of one response: each of the three is there or not.  A limit
\* header that is no number makes controller.py line 58 raise before anything
\* is stored: that response is a failed request without headers.
NoHeaders == [limit |-> Unset, remaining |-> Unset, reset |-> Unset]
Headers(rem, rst) == [limit |-> Unset, remaining |-> Known(rem), reset |-> Known(rst)]

StoredAlways(stored, header) == header

\* lines 91-96 / 61-66: an absent header leaves the stored value
StoredAfter(stored, header) == IF header.set THEN header ELSE stored

-----------------------------------------------------------------------------
(* RachioControllerHandler *)

Get(rec, k, default) == IF k \in DOMAIN rec THEN rec[k] ELSE default
\* Python's `a or b` on numbers
Or(a, b) == IF a # 0 THEN a ELSE b
Upper(st) == IF st = "processing" THEN "PROCESSING" ELSE st
WateringStatuses == {"PROCESSING", "WATERING"}

\* current_schedule data: None, a list of entries, or a single object
NoSchedule == [kind |-> "none"]
ScheduleList(items) == [kind |-> "list", items |-> items]
ScheduleObject(obj) == [kind |-> "dict", obj |-> obj]

ScheduleId(e) ==
    IF Get(e, "scheduleRuleId", NoProgram) # NoProgram THEN e.scheduleRuleId
    ELSE Get(e, "id", NoProgram)

DurationOf(e) == Or(Get(e, "zoneDuration", 0), Or(Get(e, "duration", 0), 0))

\* lines 144-148
ListRemaining(e) ==
    LET remaining == IF "remainingSeconds" \in DOMAIN e THEN e.remainingSeconds
                     ELSE Get(e, "remaining", 0)
    IN  IF remaining = 0 /\ Upper(Get(e, "status", "")) \in WateringStatuses
        THEN DurationOf(e)
        ELSE remaining

\* line 151
ListQualifies(e) == "zoneId" \in DOMAIN e /\ ListRemaining(e) > 0

\* lines 168-178
ObjectRemaining(e) ==
    LET remaining == Or(Get(e, "remainingSeconds", 0), Or(Get(e, "remaining", 0), 0))
    IN  IF remaining <= 0 THEN DurationOf(e) ELSE remaining

ObjectQualifies(e) ==
    /\ "zoneId" \in DOMAIN e
    /\ \/ Or(Get(e, "remainingSeconds", 0), Or(Get(e, "remaining", 0), 0)) > 0
       \/ (Get(e, "status", "") \in WateringStatuses /\ DurationOf(e) # 0)

CtrlEntry(e, remaining) ==
    [id |-> e.zoneId, remaining |-> remaining, schedule_id |-> ScheduleId(e)]

\* the entries of the response that mark a zone as running, in order
QualifyingEntries(data) ==
    IF data.kind = "list" THEN SelectSeq(data.items, ListQualifies)
    ELSE IF data.kind = "dict" /\ data.obj # EmptyDict /\ ObjectQualifies(data.obj)
         THEN <<data.obj>>
    ELSE <<>>

EntryRemaining(data, e) ==
    IF data.kind = "list" THEN ListRemaining(e) ELSE ObjectRemaining(e)

LastIndex(sq, P(_)) == CHOOSE i \in 1..Len(sq) : P(sq[i]) /\ \A j \in 1..Len(sq) : P(sq[j]) => j <= i

\* lines 138-190: running_zones from /current_schedule only
CtrlRunningZones(data) ==
    LET es == QualifyingEntries(data)
    IN  [z \in {es[i].zoneId : i \in 1..Len(es)} |->
            LET e == es[LastIndex(es, LAMBDA x : x.zoneId = z)]
            IN  CtrlEntry(e, EntryRemaining(data, e))]

CtrlRunningSchedules(data) ==
    LET es == SelectSeq(QualifyingEntries(data), LAMBDA x : ScheduleId(x) # NoProgram)
    IN  [p \in {ScheduleId(es[i]) : i \in 1..Len(es)} |->
            es[LastIndex(es, LAMBDA x : ScheduleId(x) = p)]]

\* lines 197-203: expired intents of ids that are not running are dropped
CtrlPurgePending(ps, rz, t) ==
    Restrict(ps, {id \in DOMAIN ps : ~(id \notin DOMAIN rz /\ t > ps[id])})

\* a variant that skips only when no call is left
RateGuardSkipsAtZero(rem, rst, t) ==
    /\ rem.set /\ rst.set
    /\ rst.v.form = "epoch"
    /\ rem.v <= 0 /\ t < rst.v.t

\* a variant that skips for as long as the stored remaining is 1 or less
RateGuardSkipsWhileSpent(rem, rst, t) ==
    /\ rem.set /\ rst.set
    /\ rst.v.form = "epoch"
    /\ rem.v <= 1

\* lines 82-90: the rate limit guard; int() of an HTTP date raises and the
\* guard is skipped
RateGuardSkips(rem, rst, t) ==
    /\ rem.set /\ rst.set
    /\ rst.v.form = "epoch"
    /\ rem.v <= 1 /\ t < rst.v.t

-----------------------------------------------------------------------------
(* RachioControllerHandler: start, stop, is_zone_optimistically_on *)
(* coordinator.async_request_refresh() hands the refresh to the host's      *)
(* debouncer, which runs the poll at once or after its cooldown: the poll   *)
(* steps are enabled after every operation.                                 *)

\* the optimistic branch of async_start_zone (lines 221-227)
CtrlStartOptimistic(resp) == resp.status \in {200, 204}
\* the branch after raise_for_status whose body parses (lines 229-234)
CtrlStartParsed(resp) ==
    ~CtrlStartOptimistic(resp) /\ ~RaisesForStatus(resp) /\ resp.json

CtrlStartZone(z, d, resp) ==
    /\ type = CONTROLLER
    /\ running_zones' =
         IF CtrlStartOptimistic(resp) \/ CtrlStartParsed(resp)
         THEN Put(running_zones, z, [id |-> z, remaining |-> d])
         ELSE running_zones
    /\ _pending_start' =
         IF CtrlStartOptimistic(resp)
         THEN Put(_pending_start, z, now + OPTIMISTIC_WINDOW)
         ELSE _pending_start
    /\ last' = [op |-> "start", id |-> z,
                accepted |-> CtrlStartOptimistic(resp),
                raised |-> RaisesForStatus(resp)]
    /\ UNCHANGED <<type, pc_service, now, pc, running_schedules, _force_stopped,
                   _last_watering_completed, _expected_end_times, deviceVars,
                   programVars, rateVars, settingVars, pollerVars>>

\* async_stop_zone clears the zone on 204, or on another 2xx whose body parses
CtrlStopClears(resp) ==
    \/ resp.status = 204
    \/ (~RaisesForStatus(resp) /\ resp.json)

CtrlStopZone(z, resp) ==
    /\ type = CONTROLLER
    /\ IF CtrlStopClears(resp)
       THEN /\ running_zones' = Pop(running_zones, z)
            /\ _pending_start' = Pop(_pending_start, z)
       ELSE UNCHANGED <<running_zones, _pending_start>>
    /\ last' = [op |-> "stop", id |-> z,
                raised |-> RaisesForStatus(resp),
                pendingBefore |-> PendingValid(_pending_start, z, now)]
    /\ UNCHANGED <<type, pc_service, now, pc, running_schedules, _force_stopped,
                   _last_watering_completed, _expected_end_times, deviceVars,
                   programVars, rateVars, settingVars, pollerVars>>

CtrlIsOn(z) ==
    LET pending == (IF z \in DOMAIN _pending_start THEN _pending_start[z] ELSE 0) > now
        running == z \in DOMAIN running_zones
    IN  running \/ pending

\* async_start_schedule: a status of 400 or more returns False
CtrlStartSchedule(p, resp) ==
    /\ type = CONTROLLER
    /\ IF resp.status >= 400
       THEN UNCHANGED <<running_schedules, _pending_start>>
       ELSE /\ running_schedules' =
                 Put(running_schedules, p, [id |-> p, optimistic |-> TRUE])
            /\ _pending_start' = Put(_pending_start, p, now + OPTIMISTIC_WINDOW)
    /\ last' = [op |-> "start_schedule", id |-> p,
                accepted |-> resp.status < 400, raised |-> FALSE]
    /\ UNCHANGED <<type, pc_service, now, pc, running_zones, _force_stopped,
                   _last_watering_completed, _expected_end_times, deviceVars,
                   programVars, rateVars, settingVars, pollerVars>>

CtrlStopSchedule(p, resp) ==
    /\ type = CONTROLLER
    /\ IF resp.status >= 400
       THEN UNCHANGED <<running_schedules, _pending_start>>
       ELSE /\ running_schedules' = EmptyDict
            /\ _pending_start' = Pop(_pending_start, p)
    /\ last' = [op |-> "stop_schedule", id |-> p,
                accepted |-> resp.status < 400, raised |-> FALSE]
    /\ UNCHANGED <<type, pc_service, now, pc, running_zones, _force_stopped,
                   _last_watering_completed, _expected_end_times, deviceVars,
                   programVars, rateVars, settingVars, pollerVars>>

-----------------------------------------------------------------------------
(* Polling intervals: utils.get_update_interval, the controller's           *)
(* _get_update_interval and the coordinator's _async_update                 *)

MAX_BACKOFF == 1800
DEFAULT_ZONE_DURATION == 600
FINAL_MINUTES == 2
FINAL_INTERVAL == 60
DEFAULT_IDLE_INTERVAL == 300
DEFAULT_ACTIVE_INTERVAL == 120
INITIAL_UPDATE_INTERVAL == 30
MAX_FAST_POLLS == 3

SetMin(S) == CHOOSE x \in S : \A y \in S : x <= y

\* utils.py lines 7-24: the rate limit is exhausted
RateLimited(rem) == rem.set /\ rem.v <= 0

\* utils.py lines 11-22: parsedate_to_datetime reads an HTTP date only; for
\* any other text it raises and the fixed backoff is returned
RateLimitDelay(rst, t) ==
    IF rst.set /\ rst.v.form = "http_date" /\ rst.v.t - t > 0
    THEN Min(rst.v.t - t, MAX_BACKOFF)
    ELSE MAX_BACKOFF

\* utils.py lines 33-37
ZoneRemainings(rz) == {rz[z].remaining : z \in {x \in DOMAIN rz : rz[x].remaining > 0}}
\* utils.py lines 39-43
ScheduleRemainings(rs) ==
    {Get(rs[p], "remaining", 0) : p \in {x \in DOMAIN rs : Get(rs[x], "remaining", 0) > 0}}
\* utils.py lines 46-64
PendingRemainings(rz, ps, t) ==
    {IF id \in DOMAIN rz THEN rz[id].remaining ELSE DEFAULT_ZONE_DURATION :
        id \in {x \in DOMAIN ps : ps[x] > t}}

\* utils.py lines 25-81
ActiveOrIdleInterval(rz, rs, ps, t, idle, active) ==
    LET zone_remainings == ZoneRemainings(rz) \cup PendingRemainings(rz, ps, t)
        remainings == IF zone_remainings # {} THEN zone_remainings
                      ELSE ScheduleRemainings(rs)
    IN  IF remainings = {} THEN idle
        ELSE IF SetMin(remainings) < FINAL_MINUTES * 60
             THEN Min(active, FINAL_INTERVAL)
             ELSE active

get_update_interval(rem, rst, rz, rs, ps, t, idle, active) ==
    IF RateLimited(rem) THEN RateLimitDelay(rst, t)
    ELSE ActiveOrIdleInterval(rz, rs, ps, t, idle, active)

\* controller.py lines 307-326
TARGET_MAX_CALLS_PER_HOUR == 80
CONTROLLER_CALLS_PER_POLL == 2
MIN_INTERVAL == 30
MAX_INTERVAL == 900
\* a variant without the upper clamp
calculate_interval_unclamped(n) ==
    LET calls_per_poll == Max(n, 1) * CONTROLLER_CALLS_PER_POLL
        interval == (calls_per_poll * 3600) \div TARGET_MAX_CALLS_PER_HOUR
    IN  Max(MIN_INTERVAL, interval)

calculate_safe_polling_interval(n) ==
    LET calls_per_poll == Max(n, 1) * CONTROLLER_CALLS_PER_POLL
        interval == (calls_per_poll * 3600) \div TARGET_MAX_CALLS_PER_HOUR
    IN  Min(MAX_INTERVAL, Max(MIN_INTERVAL, interval))

\* controller.py lines 348-355, in seconds
CtrlRemainingSeconds(rz, rs) ==
    SetMax({0} \cup {Get(rz[z], "remaining", 0) : z \in DOMAIN rz}
               \cup {Get(rs[p], "remaining", 0) : p \in DOMAIN rs})

\* controller.py lines 328-346
CtrlUpdateInterval(rz, rs, n) ==
    LET safe_min == calculate_safe_polling_interval(n)
        remaining == CtrlRemainingSeconds(rz, rs)
    IN  IF rz = EmptyDict /\ rs = EmptyDict THEN Max(safe_min, 300)
        ELSE IF remaining > 10 * 60 THEN Max(safe_min, 120)
        ELSE IF remaining > 5 * 60 THEN Max(safe_min, 60)
        ELSE IF remaining > 1 * 60 THEN Max(safe_min, 30)
        ELSE Max(safe_min, 20)

\* handler._get_update_interval() on the given handler state
HandlerUpdateInterval(ty, rem, rst, rz, rs, ps, t, idle, active, n) ==
    IF ty = CONTROLLER THEN CtrlUpdateInterval(rz, rs, n)
    ELSE get_update_interval(rem, rst, rz, rs, ps, t, idle, active)

\* __init__.py lines 128-139: the interval the coordinator polls with next
FastPollCountAfter(interval, count) ==
    IF interval <= INITIAL_UPDATE_INTERVAL THEN count + 1 ELSE count

CoordinatorIntervalAfter(interval, count, new_interval) ==
    IF interval <= INITIAL_UPDATE_INTERVAL
    THEN IF count + 1 >= MAX_FAST_POLLS THEN new_interval ELSE interval
    ELSE new_interval

-----------------------------------------------------------------------------
(* The poll cycle.  A cycle is split where the code awaits a response; the   *)
(* requests after the last one whose answer redirects the cycle are folded   *)
(* into its final step.  Every step takes the answer of the backend as its   *)
(* input.                                                                    *)

\* no operation has returned since the last step
NoOp == [op |-> "none"]

ONLINE == "ONLINE"
OFFLINE == "OFFLINE"

\* the counter of fast polls is followed up to this value
MaxFastPollCount == 5

\* getBaseStation: None, or the reported state of the base station
BaseStation(c) == [ok |-> TRUE, connected |-> c]
\* listValves: None, or the valves by id
ValveList(vs) == [ok |-> TRUE, valves |-> vs]
\* the controller's device: None, or its status, zones and schedule rules
Device(st, zs, rules) == [ok |-> TRUE, status |-> st, zones |-> zs, scheduleRules |-> rules]

\* the coordinator's _async_update once handler.async_update() has returned
\* with the handler's fields as given
CoordinatorUpdates(rem, rst, rz, rs, ps, skipped, lookups, hdrs) ==
    LET new_interval ==
            HandlerUpdateInterval(type, rem, rst, rz, rs, ps, now,
                                  idle_polling_interval, active_polling_interval,
                                  num_devices)
    IN  /\ FastPollCountAfter(update_interval, _fast_poll_count) <= MaxFastPollCount
        /\ _fast_poll_count' = FastPollCountAfter(update_interval, _fast_poll_count)
        /\ update_interval' =
             CoordinatorIntervalAfter(update_interval, _fast_poll_count, new_interval)
        /\ last' = [op |-> "update", skipped |-> skipped, interval |-> new_interval,
                    dropped |-> DOMAIN running_zones \ DOMAIN rz,
                    lookups |-> lookups, headers |-> hdrs]

\* a request of the poll cycle has been answered and the cycle awaits the
\* next one; failed: _make_request returned None for a request of the cycle
Request(failed, before, hdrs) ==
    [op |-> "request", failed |-> failed, before |-> before, headers |-> hdrs]
RequestFailed == last.op = "request" /\ last.failed

\* what the first step of a poll cycle assigns, as it is now: the snapshot
\* taken when the cycle begins
Snapshot ==
    IF type = CONTROLLER
    THEN [known |-> TRUE, status |-> status, zones |-> zones, schedules |-> schedules]
    ELSE [known |-> TRUE, status |-> status,
          base_station_connected |-> base_station_connected]
\* no snapshot is kept past the second request of a cycle, or once another
\* operation has come between two steps of the cycle
Unknown == [known |-> FALSE]
BeforeCycle ==
    IF pc = "idle" THEN Snapshot
    ELSE IF last.op = "request" THEN last.before
    ELSE Unknown

\* smart_hose_timer.py lines 205-228: the base station has answered
BaseStationAnswered(bs, hdrs) ==
    /\ base_station_connected' = (bs.ok /\ bs.connected)
    /\ status' = IF bs.ok /\ bs.connected THEN ONLINE ELSE OFFLINE
    /\ api_rate_limit' = StoredAfter(api_rate_limit, hdrs.limit)
    /\ api_rate_remaining' = StoredAfter(api_rate_remaining, hdrs.remaining)
    /\ api_rate_reset' = StoredAfter(api_rate_reset, hdrs.reset)
    /\ UNCHANGED <<type, now, zones, zoneVars, running_schedules, programVars,
                   settingVars>>

\* smart_hose_timer.py lines 232-236: the valve list has answered
ValvesAnswered(vs, hdrs) ==
    /\ zones' = IF vs.ok THEN vs.valves ELSE EmptyDict
    /\ api_rate_limit' = StoredAfter(api_rate_limit, hdrs.limit)
    /\ api_rate_remaining' = StoredAfter(api_rate_remaining, hdrs.remaining)
    /\ api_rate_reset' = StoredAfter(api_rate_reset, hdrs.reset)
    /\ UNCHANGED <<type, now, base_station_connected, status, zoneVars,
                   running_schedules, programVars, settingVars>>

\* lines 238-1106: the day views arrive, the details of the programs are
\* fetched, the running valves and programs are rebuilt
SummaryAnswered(summary, fetch, hdrs) ==
    LET from_summary == SchedulesFromSummary(summary, _program_details, _deleted_programs)
        with_details == SchedulesAfterDetails(from_summary, _program_details,
                                              _first_update_complete, now, fetch)
        vrs == ValveRunSummariesAfter(valve_run_summaries, summary, now)
        rz == MergedRunningZones(zones, now, _force_stopped,
                                 _last_watering_completed, running_zones,
                                 _pending_start)
        rs == RunningSchedulesOf(rz, vrs, with_details)
    IN  /\ valve_run_summaries' = vrs
        /\ schedules' = SchedulesWithActive(rz, vrs, with_details)
        /\ IF from_summary # <<>>
           THEN /\ _program_details' =
                     CacheAfterDetails(from_summary, _program_details,
                                       _first_update_complete, now, fetch,
                                       _program_details)
                /\ _deleted_programs' =
                     DeletedAfterDetails(from_summary, _program_details,
                                         _first_update_complete, now, fetch,
                                         _deleted_programs)
                /\ _first_update_complete' = TRUE
           ELSE UNCHANGED <<_program_details, _deleted_programs, _first_update_complete>>
        /\ running_zones' = rz
        /\ _force_stopped' = ForceStoppedAfterLoop(zones, now, _force_stopped)
        /\ _last_watering_completed' =
             CompletedAfterPoll(zones, now, _force_stopped, _last_watering_completed,
                                _expected_end_times, running_zones, _pending_start)
        /\ _expected_end_times' =
             ExpectedAfterPoll(zones, now, _force_stopped, _last_watering_completed,
                               _expected_end_times, running_zones, _pending_start)
        /\ running_schedules' = rs
        /\ api_rate_limit' = StoredAfter(api_rate_limit, hdrs.limit)
        /\ api_rate_remaining' = StoredAfter(api_rate_remaining, hdrs.remaining)
        /\ api_rate_reset' = StoredAfter(api_rate_reset, hdrs.reset)
        /\ UNCHANGED <<type, now, deviceVars, _pending_start, settingVars>>

\* the poll cycle of the coordinator (__init__.py lines 128-139)
HosePollBaseStation(bs, hdrs) ==
    /\ type = SMART_HOSE_TIMER
    /\ pc = "idle"
    /\ BaseStationAnswered(bs, hdrs)
    /\ pc' = "valves"
    /\ last' = Request(~bs.ok, BeforeCycle, hdrs)
    /\ UNCHANGED <<pc_service, pollerVars>>

HosePollValves(vs, hdrs) ==
    /\ type = SMART_HOSE_TIMER
    /\ pc = "valves"
    /\ ValvesAnswered(vs, hdrs)
    /\ pc' = "summary"
    /\ last' = Request(~vs.ok \/ RequestFailed, Unknown, hdrs)
    /\ UNCHANGED <<pc_service, pollerVars>>

HosePollFinish(summary, fetch, hdrs) ==
    /\ type = SMART_HOSE_TIMER
    /\ pc = "summary"
    /\ SummaryAnswered(summary, fetch, hdrs)
    /\ CoordinatorUpdates(api_rate_remaining', api_rate_reset', running_zones',
                          running_schedules', _pending_start, FALSE,
                          Lookups(summary,
                                  SchedulesFromSummary(summary, _program_details,
                                                       _deleted_programs),
                                  _program_details, _first_update_complete, now, fetch),
                          hdrs)
    /\ pc' = "idle"
    /\ UNCHANGED pc_service

\* handle_create_program (__init__.py line 707): once the program is created
\* the service awaits handler.async_update() itself, past the coordinator;
\* the interval is not read
ServicePollBaseStation(bs, hdrs) ==
    /\ type = SMART_HOSE_TIMER
    /\ pc_service = "idle"
    /\ BaseStationAnswered(bs, hdrs)
    /\ pc_service' = "valves"
    /\ last' = NoOp
    /\ UNCHANGED <<pc, pollerVars>>

ServicePollValves(vs, hdrs) ==
    /\ type = SMART_HOSE_TIMER
    /\ pc_service = "valves"
    /\ ValvesAnswered(vs, hdrs)
    /\ pc_service' = "summary"
    /\ last' = NoOp
    /\ UNCHANGED <<pc, pollerVars>>

ServicePollFinish(summary, fetch, hdrs) ==
    /\ type = SMART_HOSE_TIMER
    /\ pc_service = "summary"
    /\ SummaryAnswered(summary, fetch, hdrs)
    /\ pc_service' = "idle"
    /\ last' = [op |-> "create_program"]
    /\ UNCHANGED <<pc, pollerVars>>

\* controller.py lines 82-90: the poll is skipped
CtrlPollSkipped ==
    /\ type = CONTROLLER
    /\ pc = "idle"
    /\ RateGuardSkips(api_rate_remaining, api_rate_reset, now)
    /\ CoordinatorUpdates(api_rate_remaining, api_rate_reset, running_zones,
                          running_schedules, _pending_start, TRUE, NoLookups,
                          NoHeaders)
    /\ UNCHANGED <<type, pc_service, now, pc, zoneVars, running_schedules, deviceVars,
                   programVars, rateVars, settingVars>>

\* controller.py lines 93-109
CtrlPollDevice(dev, hdrs) ==
    /\ type = CONTROLLER
    /\ pc = "idle"
    /\ ~RateGuardSkips(api_rate_remaining, api_rate_reset, now)
    /\ status' = IF dev.ok THEN dev.status ELSE OFFLINE
    /\ zones' = IF dev.ok THEN dev.zones ELSE EmptyDict
    /\ schedules' = IF dev.ok THEN dev.scheduleRules ELSE <<>>
    /\ api_rate_limit' = StoredAfter(api_rate_limit, hdrs.limit)
    /\ api_rate_remaining' = StoredAfter(api_rate_remaining, hdrs.remaining)
    /\ api_rate_reset' = StoredAfter(api_rate_reset, hdrs.reset)
    /\ pc' = "schedule"
    /\ last' = Request(~dev.ok, BeforeCycle, hdrs)
    /\ UNCHANGED <<type, pc_service, now, base_station_connected, zoneVars, running_schedules,
                   valve_run_summaries, _program_details, _deleted_programs,
                   _first_update_complete, settingVars, pollerVars>>

\* controller.py lines 134-203
CtrlPollFinish(data, hdrs) ==
    LET rz == CtrlRunningZones(data)
        rs == CtrlRunningSchedules(data)
        ps == CtrlPurgePending(_pending_start, rz, now)
        rem == StoredAfter(api_rate_remaining, hdrs.remaining)
        rst == StoredAfter(api_rate_reset, hdrs.reset)
    IN  /\ type = CONTROLLER
        /\ pc = "schedule"
        /\ running_zones' = rz
        /\ running_schedules' = rs
        /\ _pending_start' = ps
        /\ api_rate_limit' = StoredAfter(api_rate_limit, hdrs.limit)
        /\ api_rate_remaining' = rem
        /\ api_rate_reset' = rst
        /\ CoordinatorUpdates(rem, rst, rz, rs, ps, FALSE, NoLookups, hdrs)
        /\ pc' = "idle"
        /\ UNCHANGED <<type, pc_service, now, _force_stopped, _last_watering_completed,
                       _expected_end_times, deviceVars, programVars, settingVars>>

\* The answer awaited is JSON of another shape than an object: data.get
\* raises, async_update logs the error and raises it again (smart_hose_timer.py
\* lines 1107-1109), and _async_update, which catches nothing, is left before
\* the interval is read.  What the cycle has assigned so far stays.
HosePollRaises(hdrs) ==
    /\ type = SMART_HOSE_TIMER
    /\ pc \in {"idle", "valves"}
    /\ api_rate_limit' = StoredAfter(api_rate_limit, hdrs.limit)
    /\ api_rate_remaining' = StoredAfter(api_rate_remaining, hdrs.remaining)
    /\ api_rate_reset' = StoredAfter(api_rate_reset, hdrs.reset)
    /\ pc' = "idle"
    /\ last' = [op |-> "update_raised", raised |-> TRUE, before |-> BeforeCycle,
                headers |-> hdrs]
    /\ UNCHANGED <<type, pc_service, now, deviceVars, zoneVars, running_schedules, programVars,
                   settingVars, pollerVars>>

\* controller.py lines 207-209
CtrlPollRaises(hdrs) ==
    /\ type = CONTROLLER
    /\ pc \in {"idle", "schedule"}
    /\ pc = "idle" => ~RateGuardSkips(api_rate_remaining, api_rate_reset, now)
    /\ api_rate_limit' = StoredAfter(api_rate_limit, hdrs.limit)
    /\ api_rate_remaining' = StoredAfter(api_rate_remaining, hdrs.remaining)
    /\ api_rate_reset' = StoredAfter(api_rate_reset, hdrs.reset)
    /\ pc' = "idle"
    /\ last' = [op |-> "update_raised", raised |-> TRUE, before |-> BeforeCycle,
                headers |-> hdrs]
    /\ UNCHANGED <<type, pc_service, now, deviceVars, zoneVars, running_schedules, programVars,
                   settingVars, pollerVars>>

\* The cycle is cancelled while it awaits an answer: CancelledError is no
\* Exception, so neither _make_request nor async_update catches it, and
\* nothing is undone.
PollCancelled ==
    /\ pc # "idle"
    /\ pc' = "idle"
    /\ last' = [op |-> "update_cancelled", before |-> BeforeCycle]
    /\ UNCHANGED <<type, pc_service, now, deviceVars, zoneVars, running_schedules,
                   programVars, rateVars, settingVars, pollerVars>>

-----------------------------------------------------------------------------
(* Settings (number.py) and the clock *)

MIN_POLLING_INTERVAL == 30
MAX_POLLING_INTERVAL == 2400

\* RachioIdlePollingIntervalNumber.async_set_native_value
SetIdlePollingInterval(v) ==
    /\ v \in MIN_POLLING_INTERVAL..MAX_POLLING_INTERVAL
    /\ idle_polling_interval # v
    /\ idle_polling_interval' = v
    /\ last' = [op |-> "set_idle", value |-> v]
    /\ UNCHANGED <<type, pc_service, now, pc, zoneVars, running_schedules, deviceVars,
                   programVars, rateVars, active_polling_interval, num_devices,
                   pollerVars>>

Tick ==
    /\ now + TickSeconds <= Epoch + MaxTime
    /\ now' = now + TickSeconds
    /\ last' = NoOp
    /\ UNCHANGED <<type, pc_service, pc, zoneVars, running_schedules, deviceVars,
                   programVars, rateVars, settingVars, pollerVars>>

\* the cache of program details is followed for MaxHours refresh intervals
MaxHours == 2

\* a refresh interval of the program details passes
HourTick ==
    /\ now + PROGRAM_DETAILS_REFRESH_INTERVAL
          <= Epoch + MaxHours * PROGRAM_DETAILS_REFRESH_INTERVAL
    /\ now' = now + PROGRAM_DETAILS_REFRESH_INTERVAL
    /\ last' = NoOp
    /\ UNCHANGED <<type, pc_service, pc, zoneVars, running_schedules, deviceVars,
                   programVars, rateVars, settingVars, pollerVars>>

-----------------------------------------------------------------------------
(* The handler after construction (async_setup_entry) *)

HandlerTypes == {CONTROLLER, SMART_HOSE_TIMER}

Constructed(ty, n, idle) ==
    /\ type = ty
    /\ now = Epoch
    /\ pc = "idle"
    /\ pc_service = "idle"
    /\ zones = EmptyDict
    /\ base_station_connected = FALSE
    /\ status = OFFLINE
    /\ running_zones = EmptyDict
    /\ running_schedules = EmptyDict
    /\ _pending_start = EmptyDict
    /\ _force_stopped = EmptyDict
    /\ _last_watering_completed = EmptyDict
    /\ _expected_end_times = EmptyDict
    /\ schedules = <<>>
    /\ valve_run_summaries = EmptyDict
    /\ _program_details = <<>>
    /\ _deleted_programs = {}
    /\ _first_update_complete = FALSE
    /\ api_rate_limit = Unset
    /\ api_rate_remaining = Unset
    /\ api_rate_reset = Unset
    /\ idle_polling_interval = idle
    /\ active_polling_interval = DEFAULT_ACTIVE_INTERVAL
    /\ num_devices = n
    /\ update_interval = INITIAL_UPDATE_INTERVAL
    /\ _fast_poll_count = 0
    /\ last = NoOp

-----------------------------------------------------------------------------
(* Spec: one device, default settings; valves and zones are started and     *)
(* stopped while the device is polled                                       *)

\* the backend's answers
ActionSeconds == 60
ActionStarts == {Epoch - ActionSeconds, Epoch + TickSeconds}
ValveActions ==
    {NoAction} \cup {Action(Iso(st), ActionSeconds, NoProgram) : st \in ActionStarts}
BaseStationResponses == {NoData, BaseStation(TRUE), BaseStation(FALSE)}
ValveResponses ==
    {NoData, ValveList([z \in Zones |-> Valve(FALSE, NoAction)])}
    \cup {ValveList([z \in Zones |-> Valve(TRUE, a)]) : a \in ValveActions}
NoFetch == [p \in Schedules |-> NoDetails]
DeviceResponses ==
    {NoData, Device(ONLINE, [z \in Zones |-> [id |-> z]], <<>>)}
CurrentSchedules ==
    {NoSchedule,
     ScheduleObject([zoneId |-> "Z1", remainingSeconds |-> 240, scheduleRuleId |-> "P1"]),
     ScheduleList(<<[zoneId |-> "Z1", status |-> "PROCESSING", zoneDuration |-> 300]>>)}

Init == \E ty \in HandlerTypes : Constructed(ty, 1, DEFAULT_IDLE_INTERVAL)

Next ==
    \/ Tick
    \/ \E z \in Zones, d \in StartDurations, resp \in Responses : HoseStartZone(z, d, resp)
    \/ \E z \in Zones, resp \in Responses : HoseStopZone(z, resp)
    \/ \E bs \in BaseStationResponses : HosePollBaseStation(bs, NoHeaders)
    \/ \E vs \in ValveResponses : HosePollValves(vs, NoHeaders)
    \/ HosePollFinish(NoData, NoFetch, NoHeaders)
    \/ \E z \in Zones, d \in StartDurations, resp \in Responses : CtrlStartZone(z, d, resp)
    \/ \E z \in Zones, resp \in Responses : CtrlStopZone(z, resp)
    \/ \E dev \in DeviceResponses : CtrlPollDevice(dev, NoHeaders)
    \/ \E data \in CurrentSchedules : CtrlPollFinish(data, NoHeaders)

Spec == Init /\ [][Next]_vars

-----------------------------------------------------------------------------
(* SpecSchedules: schedules of the controller and programs of the hose      *)
(* timer are started and stopped while the device is polled                 *)

NextSchedules ==
    \/ Tick
    \/ \E p \in Schedules, resp \in Responses : HoseStartSchedule(p, resp)
    \/ \E bs \in BaseStationResponses : HosePollBaseStation(bs, NoHeaders)
    \/ \E vs \in ValveResponses : HosePollValves(vs, NoHeaders)
    \/ HosePollFinish(NoData, NoFetch, NoHeaders)
    \/ \E p \in Schedules, resp \in Responses : CtrlStartSchedule(p, resp)
    \/ \E p \in Schedules, resp \in Responses : CtrlStopSchedule(p, resp)
    \/ \E dev \in DeviceResponses : CtrlPollDevice(dev, NoHeaders)
    \/ \E data \in CurrentSchedules : CtrlPollFinish(data, NoHeaders)

SpecSchedules == Init /\ [][NextSchedules]_vars

-----------------------------------------------------------------------------
(* SpecPrograms: a hose timer with two valves and one program is polled     *)

ProgramZones == {"Z1", "Z2"}
ProgramSeconds == 120

\* a run of ProgramSeconds begun at Epoch, a run of ActionSeconds begun later
LongRun == Action(Iso(Epoch), ProgramSeconds, NoProgram)
ShortRun == Action(Iso(Epoch + TickSeconds), ActionSeconds, NoProgram)
ProgramValveResponses ==
    {ValveList([z \in ProgramZones |-> Valve(TRUE, acts[z])]) :
        acts \in {[Z1 |-> NoAction, Z2 |-> NoAction],
                  [Z1 |-> LongRun, Z2 |-> NoAction],
                  [Z1 |-> LongRun, Z2 |-> LongRun],
                  [Z1 |-> LongRun, Z2 |-> ShortRun]}}

\* past runs at the edge of the tolerance of a valve started at Epoch and
\* inside it; a planned run at the edge of the tolerance of that valve
PastRunStarts ==
    {Epoch - PREVIOUS_RUN_TOLERANCE, Epoch - PREVIOUS_RUN_TOLERANCE + TickSeconds}
Summaries ==
    {NoData,
     Summary(<<DayView(<<>>, <<QuickRun(<<ValveRun("Z1", Iso(Epoch - TickSeconds))>>)>>)>>)}
    \cup {Summary(<<DayView(<<ProgramRun("P1", <<ValveRun("Z1", Iso(st)),
                                                 ValveRun("Z2", Iso(st))>>)>>,
                            <<>>)>>) : st \in PastRunStarts}
ProgramFetches ==
    {[p \in Schedules |-> d] :
        d \in {NoDetails,
               Details(TRUE, ProgramZones, <<>>),
               Details(TRUE, ProgramZones, <<Planned(Epoch + PLANNED_RUN_TOLERANCE)>>)}}

InitPrograms == Constructed(SMART_HOSE_TIMER, 1, DEFAULT_IDLE_INTERVAL)

NextPrograms ==
    \/ Tick
    \/ HosePollBaseStation(BaseStation(TRUE), NoHeaders)
    \/ \E vs \in ProgramValveResponses : HosePollValves(vs, NoHeaders)
    \/ \E summary \in Summaries, fetch \in ProgramFetches :
          HosePollFinish(summary, fetch, NoHeaders)

SpecPrograms == InitPrograms /\ [][NextPrograms]_vars

-----------------------------------------------------------------------------
(* SpecAttribution: a hose timer with two programs, declared in either      *)
(* order, is polled while valve Z1 runs; the inputs of the attribution      *)
(* (direct program id, the valve's run summary, the planned runs) are drawn *)
(* at and around the tolerances                                             *)

AttributionPrograms == {"P1", "P2"}

\* Z1 runs from Epoch on, with no program id or with P2's; Z2 rests
AttributionValveResponses ==
    {ValveList([Z1 |-> Valve(TRUE, Action(Iso(Epoch), ProgramSeconds, pid)),
                Z2 |-> Valve(TRUE, NoAction)]) : pid \in {NoProgram, "P2"}}

\* Z1's past run: none, P1's inside the tolerance or at its edge, a quick run
PastRunsOfZ1 ==
    {[P1 |-> <<>>, quick |-> <<>>],
     [P1 |-> <<ValveRun("Z1", Iso(Epoch - PREVIOUS_RUN_TOLERANCE + TickSeconds))>>,
      quick |-> <<>>],
     [P1 |-> <<ValveRun("Z1", Iso(Epoch - PREVIOUS_RUN_TOLERANCE))>>, quick |-> <<>>],
     [P1 |-> <<>>, quick |-> <<QuickRun(<<ValveRun("Z1", Iso(Epoch - TickSeconds))>>)>>]}

\* Z1's future run: none, P2's inside the tolerance or at its edge
FutureRunsOfZ1 ==
    {<<>>,
     <<ValveRun("Z1", Iso(Epoch + NEXT_RUN_TOLERANCE - TickSeconds))>>,
     <<ValveRun("Z1", Iso(Epoch + NEXT_RUN_TOLERANCE))>>}

\* an old run on Z2 declares each program
DeclaringRun == <<ValveRun("Z2", Iso(Epoch - 2 * PREVIOUS_RUN_TOLERANCE))>>

\* P1 and P2 in either order of declaration
AttributionSummary(past, future, p1_first) ==
    LET r1 == ProgramRun("P1", DeclaringRun \o past.P1)
        r2 == ProgramRun("P2", DeclaringRun \o future)
    IN  Summary(<<DayView(IF p1_first THEN <<r1, r2>> ELSE <<r2, r1>>, past.quick)>>)

AttributionSummaries ==
    {AttributionSummary(past, future, p1_first) :
        past \in PastRunsOfZ1, future \in FutureRunsOfZ1, p1_first \in BOOLEAN}

\* planned runs one minute after the start of Z1 (P1) and one minute before it
\* (P2) tie; one at Z1's start is closer; one at the tolerance is too far
AttributionFetch(pl1, pl2, a2) ==
    [P1 |-> Details(TRUE, ProgramZones, pl1), P2 |-> Details(TRUE, a2, pl2)]

AttributionFetches ==
    {AttributionFetch(<<>>, <<>>, ProgramZones),
     AttributionFetch(<<Planned(Epoch + MINUTE)>>, <<Planned(Epoch - MINUTE)>>,
                      ProgramZones),
     AttributionFetch(<<Planned(Epoch + MINUTE)>>, <<Planned(Epoch)>>, ProgramZones),
     AttributionFetch(<<Planned(Epoch + MINUTE)>>, <<Planned(Epoch)>>, {"Z2"}),
     AttributionFetch(<<Planned(Epoch + PLANNED_RUN_TOLERANCE)>>, <<>>, ProgramZones),
     AttributionFetch(<<>>, <<Planned(Epoch - MINUTE)>>, {"Z2"})}

\* the clock stands still: the details cached by the first poll stay fresh
\* (lines 613-627) and no later answer to a details request is read
FetchesConsulted ==
    IF _first_update_complete
    THEN {[p \in AttributionPrograms |-> NoDetails]}
    ELSE AttributionFetches

NextAttribution ==
    \/ HosePollBaseStation(BaseStation(TRUE), NoHeaders)
    \/ \E vs \in AttributionValveResponses : HosePollValves(vs, NoHeaders)
    \/ \E summary \in AttributionSummaries, fetch \in FetchesConsulted :
          HosePollFinish(summary, fetch, NoHeaders)

SpecAttribution == InitPrograms /\ [][NextAttribution]_vars

-----------------------------------------------------------------------------
(* SpecPoller: devices sharing one account are polled under rate limits     *)
(* while the idle interval is changed                                       *)

MaxDevices == 11
ResetDelay == 120

DeviceCounts == {1, MaxDevices}
IdleIntervals == {MIN_POLLING_INTERVAL, DEFAULT_IDLE_INTERVAL, MAX_POLLING_INTERVAL}

\* the budget is spent and resets in ResetDelay seconds or far beyond the
\* backoff, stated either way; one call is left; the budget is ample
RateHeaders ==
    {NoHeaders,
     Headers(0, HttpDate(Epoch + ResetDelay)),
     Headers(0, EpochSeconds(Epoch + ResetDelay)),
     Headers(0, HttpDate(Epoch + 2 * MAX_BACKOFF)),
     Headers(1, EpochSeconds(Epoch + TickSeconds)),
     Headers(50, HttpDate(Epoch + 2 * MAX_BACKOFF))}

PollerValveResponses ==
    {ValveList([z \in Zones |-> Valve(TRUE, a)]) :
        a \in {NoAction, Action(Iso(Epoch - ActionSeconds), ActionSeconds, NoProgram)}}

InitPoller ==
    \E ty \in HandlerTypes, n \in DeviceCounts :
        Constructed(ty, n, DEFAULT_IDLE_INTERVAL)

NextPoller ==
    \/ Tick
    \/ \E v \in IdleIntervals : SetIdlePollingInterval(v)
    \/ \E z \in Zones : HoseStartZone(z, DEFAULT_ZONE_DURATION, Resp(204, FALSE))
    \/ HosePollBaseStation(BaseStation(TRUE), NoHeaders)
    \/ \E vs \in PollerValveResponses : HosePollValves(vs, NoHeaders)
    \/ \E hdrs \in RateHeaders : HosePollFinish(NoData, NoFetch, hdrs)
    \/ CtrlPollSkipped
    \/ \E dev \in DeviceResponses : CtrlPollDevice(dev, NoHeaders)
    \/ \E data \in CurrentSchedules, hdrs \in RateHeaders : CtrlPollFinish(data, hdrs)

SpecPoller == InitPoller /\ [][NextPoller]_vars

-----------------------------------------------------------------------------
(* SpecFloor: a controller is polled while zones run, for every count of     *)
(* devices sharing the account                                               *)

InitFloor ==
    \E n \in 1..MaxDevices : Constructed(CONTROLLER, n, DEFAULT_IDLE_INTERVAL)

NextFloor ==
    \/ Tick
    \/ \E dev \in DeviceResponses : CtrlPollDevice(dev, NoHeaders)
    \/ \E data \in CurrentSchedules : CtrlPollFinish(data, NoHeaders)

SpecFloor == InitFloor /\ [][NextFloor]_vars

-----------------------------------------------------------------------------
(* SpecBackoff: the backend reports a spent budget and a reset time that     *)
(* the clock passes.  The coordinator schedules the next refresh after every *)
(* one, with an interval of 30 s or more: a poll begins when time has passed *)
(* since the last operation, a cycle is answered before the clock moves on,  *)
(* and both keep happening.                                                  *)

BackoffResets == {Epoch + TickSeconds, Epoch + 2 * TickSeconds}

\* the budget is spent, or one call is left, until a reset within the time
\* followed, or spent until one far beyond the backoff
BackoffHeaders ==
    {NoHeaders, Headers(0, HttpDate(Epoch + 2 * MAX_BACKOFF))}
    \cup {Headers(0, HttpDate(r)) : r \in BackoffResets}
    \cup {Headers(0, EpochSeconds(r)) : r \in BackoffResets}
    \cup {Headers(1, EpochSeconds(r)) : r \in BackoffResets}

PollDue == last = NoOp

BackoffTick == pc = "idle" /\ Tick

BackoffPollStep ==
    \/ PollDue /\ HosePollBaseStation(BaseStation(TRUE), NoHeaders)
    \/ HosePollValves(NoData, NoHeaders)
    \/ \E hdrs \in BackoffHeaders : HosePollFinish(NoData, NoFetch, hdrs)
    \/ PollDue /\ CtrlPollSkipped
    \/ PollDue /\ CtrlPollDevice(NoData, NoHeaders)
    \/ \E hdrs \in BackoffHeaders : CtrlPollFinish(NoSchedule, hdrs)

NextBackoff == BackoffTick \/ BackoffPollStep

SpecBackoff ==
    /\ Init
    /\ [][NextBackoff]_vars
    /\ WF_vars(BackoffTick)
    /\ WF_vars(BackoffPollStep)

-----------------------------------------------------------------------------
(* SpecCache: a hose timer whose program comes and goes in the summary is   *)
(* polled over several refresh intervals of the program details             *)

CacheValveResponses == {ValveList([z \in Zones |-> Valve(TRUE, NoAction)])}
CacheSummaries ==
    {NoData,
     Summary(<<DayView(<<ProgramRun("P1", <<ValveRun("Z1", Iso(Epoch - TickSeconds))>>)>>,
                       <<>>)>>)}
CacheFetches ==
    {[p \in Schedules |-> d] :
        d \in {NoDetails, NotFound,
               Details(TRUE, Zones, <<>>), Details(FALSE, Zones, <<>>)}}

NextCache ==
    \/ HourTick
    \/ HosePollBaseStation(BaseStation(TRUE), NoHeaders)
    \/ \E vs \in CacheValveResponses : HosePollValves(vs, NoHeaders)
    \/ \E summary \in CacheSummaries, fetch \in CacheFetches :
          HosePollFinish(summary, fetch, NoHeaders)

SpecCache == InitPrograms /\ [][NextCache]_vars

-----------------------------------------------------------------------------
(* SpecHeaders: the answers of the poll cycles carry any of the three       *)
(* rate-limit headers                                                       *)

LimitValues == {1700, 3500}
RemainingValues == {1, 50}
ResetValues == {EpochSeconds(Epoch + TickSeconds), HttpDate(Epoch + ResetDelay)}
HeaderSets ==
    {[limit |-> l, remaining |-> r, reset |-> s] :
        l \in {Unset} \cup {Known(v) : v \in LimitValues},
        r \in {Unset} \cup {Known(v) : v \in RemainingValues},
        s \in {Unset} \cup {Known(v) : v \in ResetValues}}

NextHeaders ==
    \/ Tick
    \/ \E hdrs \in HeaderSets : HosePollBaseStation(BaseStation(TRUE), hdrs)
    \/ \E hdrs \in HeaderSets : HosePollValves(NoData, hdrs)
    \/ \E hdrs \in HeaderSets : HosePollFinish(NoData, NoFetch, hdrs)
    \/ CtrlPollSkipped
    \/ \E hdrs \in HeaderSets : CtrlPollDevice(NoData, hdrs)
    \/ \E hdrs \in HeaderSets : CtrlPollFinish(NoSchedule, hdrs)

SpecHeaders == Init /\ [][NextHeaders]_vars

-----------------------------------------------------------------------------
(* SpecService: the create_program service is called on a hose timer that   *)
(* the coordinator polls                                                    *)

InitService == Constructed(SMART_HOSE_TIMER, 1, DEFAULT_IDLE_INTERVAL)

NextService ==
    \/ Tick
    \/ \E bs \in BaseStationResponses : HosePollBaseStation(bs, NoHeaders)
    \/ \E vs \in ValveResponses : HosePollValves(vs, NoHeaders)
    \/ HosePollFinish(NoData, NoFetch, NoHeaders)
    \/ \E bs \in BaseStationResponses : ServicePollBaseStation(bs, NoHeaders)
    \/ \E vs \in ValveResponses : ServicePollValves(vs, NoHeaders)
    \/ ServicePollFinish(NoData, NoFetch, NoHeaders)

SpecService == InitService /\ [][NextService]_vars

-----------------------------------------------------------------------------
(* SpecFailures: polls whose requests fail, whose answers are malformed, or *)
(* that are cancelled                                                       *)

NextFailures ==
    \/ Tick
    \/ \E bs \in BaseStationResponses : HosePollBaseStation(bs, NoHeaders)
    \/ \E vs \in ValveResponses : HosePollValves(vs, NoHeaders)
    \/ HosePollFinish(NoData, NoFetch, NoHeaders)
    \/ HosePollRaises(NoHeaders)
    \/ \E dev \in DeviceResponses : CtrlPollDevice(dev, NoHeaders)
    \/ \E data \in CurrentSchedules : CtrlPollFinish(data, NoHeaders)
    \/ CtrlPollRaises(NoHeaders)
    \/ PollCancelled

SpecFailures == Init /\ [][NextFailures]_vars

-----------------------------------------------------------------------------
(* Properties of the optimistic state (Spec) *)

\* what the switch of zone z reads
is_zone_optimistically_on(z) ==
    IF type = CONTROLLER THEN CtrlIsOn(z) ELSE HoseIsOn(z)

\* the valve has no lastWateringAction at the backend
NoBackendAction(z) ==
    z \notin DOMAIN zones \/ zones[z].lastWateringAction = NoAction

\* an entry of running_zones written by start(), not read from the backend
Optimistic(entry) == "start_time" \notin DOMAIN entry /\ "schedule_id" \notin DOMAIN entry

\* C1: in every reachable state and for every zone z,
\* is_zone_optimistically_on(z) is true iff z is in running_zones or z has a
\* non-expired pending start (a stop removes the pending start it supersedes).
C1_OnIffRunningOrPending ==
    \A z \in Zones :
        is_zone_optimistically_on(z)
            <=> (z \in DOMAIN running_zones \/ PendingValid(_pending_start, z, now))

\* C2: on the hose timer, intents on one valve are last-writer-wins: right
\* after stop(z) the valve reads off, also when a start window was still
\* open; right after an accepted start(z) the valve reads on, also when a
\* stop was recorded less than 30 s before.
C2_LastWriterWins ==
    type = SMART_HOSE_TIMER =>
        \A z \in Zones :
            /\ (last.op = "stop" /\ last.id = z) => ~HoseIsOn(z)
            /\ (last.op = "start" /\ last.id = z /\ last.accepted) => HoseIsOn(z)

\* C2 witness: a start accepted less than 30 s after a stop of the same
\* valve, and the valve reads on
C2_StartAfterStopReadsOn ==
    /\ type = SMART_HOSE_TIMER
    /\ last.op = "start" /\ last.accepted
    /\ ForceStopIgnores(last.id, now, _force_stopped)
    /\ HoseIsOn(last.id)

\* C3: stop(z) never raises, and after it z is absent from running_zones and
\* from the pending-start map, whatever the state before the call.
C3_StopLeavesZoneAbsent ==
    last.op = "stop" =>
        /\ ~last.raised
        /\ last.id \notin DOMAIN running_zones
        /\ last.id \notin DOMAIN _pending_start

\* C4: the recorded completion of a zone never decreases, across polls and
\* across stops issued between polls.
C4_CompletionNeverDecreases ==
    [][\A z \in DOMAIN _last_watering_completed :
          /\ z \in DOMAIN _last_watering_completed'
          /\ _last_watering_completed'[z] >= _last_watering_completed[z]]_vars


GRACE_PERIOD == 30

C6_NoExpiredIntentAfterPoll ==
    last.op = "update" => \A id \in DOMAIN _pending_start : ~(now > _pending_start[id])

\* the hose timer's poll of the valves as last fetched finishes in this step
HosePollFinishes == type = SMART_HOSE_TIMER /\ pc = "summary" /\ pc' = "idle"

\* the backend's action of valve z ended more than the buffer ago, and no
\* stop of the last 30 s makes the poll ignore it
ActionEnded(z) ==
    /\ z \in DOMAIN zones
    /\ HasParsedAction(zones[z])
    /\ now > EndTimeBuffer(zones[z])
    /\ ~ForceStopIgnores(z, now, _force_stopped)

\* the completions known for z before the poll: the recorded one, and the
\* expected end tracked for z if z was running and the poll drops it
KnownCompletions(z) ==
    {_last_watering_completed[x] : x \in {z} \cap DOMAIN _last_watering_completed}
    \cup {_expected_end_times[x] :
            x \in ({z} \cap DOMAIN _expected_end_times \cap DOMAIN running_zones)
                    \ DOMAIN running_zones'}

\* C7: when the backend reports for valve z an action (T, D) and a poll runs
\* after T + D + 30 s, not within 30 s of a stop of z: after the poll z is in
\* running_zones only if it was there before under a pending start that has
\* not expired, and the completion recorded for z is the latest of T + D and
\* the completions known before; it is T + D when none was known, and never
\* the time of the poll.
C7_CompletionIsActionEnd ==
    [][HosePollFinishes =>
        \A z \in Zones :
            ActionEnded(z) =>
                /\ z \in DOMAIN running_zones' =>
                      /\ z \in DOMAIN running_zones
                      /\ running_zones'[z] = running_zones[z]
                      /\ PendingValid(_pending_start, z, now)
                /\ z \in DOMAIN _last_watering_completed'
                /\ _last_watering_completed'[z] =
                      SetMax({EndTime(zones[z])} \cup KnownCompletions(z))]_vars

\* C7 witness: a poll has completed 60 s after the end of the backend's
\* action; the valve is not running and its completion is the action's end
C7_CompletedAtActionEnd ==
    /\ type = SMART_HOSE_TIMER
    /\ last.op = "update"
    /\ \E z \in Zones :
          /\ ActionEnded(z)
          /\ z \notin DOMAIN running_zones
          /\ z \in DOMAIN _last_watering_completed
          /\ _last_watering_completed[z] = EndTime(zones[z])
          /\ _last_watering_completed[z] < now

\* C7 as first stated: after a poll that runs past the effective end of the
\* backend's action (T, D), z is absent from running_zones and the completion
\* recorded for z is T + D.
C7_AbsentAndCompletedAtEnd ==
    (type = SMART_HOSE_TIMER /\ last.op = "update") =>
        \A z \in Zones :
            (/\ z \in DOMAIN zones
             /\ HasParsedAction(zones[z])
             /\ now > EndTimeBuffer(zones[z]))
            => /\ z \notin DOMAIN running_zones
               /\ z \in DOMAIN _last_watering_completed
               /\ _last_watering_completed[z] = EndTime(zones[z])


-----------------------------------------------------------------------------
(* Properties of program attribution (SpecPrograms) *)

\* valve z runs on a backend action that names no program, and its run
\* summary holds a previous run of program p, of source "program", begun
\* less than 3600 s from the start of that action
PreviousRunOf(z, p) ==
    /\ z \in DOMAIN running_zones
    /\ "start_time" \in DOMAIN running_zones[z]
    /\ running_zones[z].program_id = NoProgram
    /\ z \in DOMAIN valve_run_summaries
    /\ valve_run_summaries[z].previous_run # NoRun
    /\ valve_run_summaries[z].previous_run.source = "program"
    /\ valve_run_summaries[z].previous_run.program_id = p
    /\ Abs(valve_run_summaries[z].previous_run.start - running_zones[z].start_time)
          < 3600

\* z is the only running valve of program q that the poll attributes to q
OnlyAttributedValve(z, q) ==
    \A y \in (q.valveIds \cap DOMAIN running_zones) \ {z} :
        AttributedProgram(y, running_zones[y], valve_run_summaries, schedules) # q.id

\* C8: after a poll of the hose timer, if program P lists valve Z, Z runs
\* with no direct program id and Z's previous run is a "program" run of P
\* begun less than 3600 s from Z's backend start, then P is in
\* running_schedules, with Z's remaining when Z is P's only attributed
\* running valve.
C8_PreviousRunAttributesProgram ==
    (type = SMART_HOSE_TIMER /\ last.op = "update") =>
        \A z \in ProgramZones : \A i \in 1..Len(schedules) :
            (z \in schedules[i].valveIds /\ PreviousRunOf(z, schedules[i].id))
            => /\ schedules[i].id \in DOMAIN running_schedules
               /\ OnlyAttributedValve(z, schedules[i])
                    => running_schedules[schedules[i].id].remaining
                          = running_zones[z].remaining

\* C8 witness: P1 lists Z1 and Z2, both run, only Z1 is attributed to P1
\* through its previous run, and P1 runs with Z1's remaining
C8_ProgramRunsWithValveRemaining ==
    /\ type = SMART_HOSE_TIMER /\ last.op = "update"
    /\ \E i \in 1..Len(schedules) :
          /\ schedules[i].valveIds = {"Z1", "Z2"}
          /\ PreviousRunOf("Z1", schedules[i].id)
          /\ "Z2" \in DOMAIN running_zones
          /\ OnlyAttributedValve("Z1", schedules[i])
          /\ schedules[i].id \in DOMAIN running_schedules
          /\ running_schedules[schedules[i].id].remaining = running_zones["Z1"].remaining
          /\ running_zones["Z1"].remaining > running_zones["Z2"].remaining

\* the valves of program q that are in running_zones and attributed to q
AttributedRunning(q) ==
    {z \in q.valveIds :
        /\ z \in DOMAIN running_zones
        /\ AttributedProgram(z, running_zones[z], valve_run_summaries, schedules) = q.id}

\* C16: after a poll of the hose timer, a program is in running_schedules if
\* and only if a valve of its valve list is in running_zones and attributed
\* to it, its remaining is the largest remaining of those valves, and every
\* entry of running_schedules has such a valve.
C16_RunningIffAttributedValve ==
    (type = SMART_HOSE_TIMER /\ last.op = "update") =>
        /\ \A i \in 1..Len(schedules) :
              /\ schedules[i].id \in DOMAIN running_schedules
                    <=> AttributedRunning(schedules[i]) # {}
              /\ AttributedRunning(schedules[i]) # {} =>
                    running_schedules[schedules[i].id].remaining
                      = SetMax({running_zones[z].remaining :
                                  z \in AttributedRunning(schedules[i])})
        /\ \A p \in DOMAIN running_schedules :
              \E i \in 1..Len(schedules) :
                  schedules[i].id = p /\ AttributedRunning(schedules[i]) # {}

\* C16 witness: both valves of P1 run and are attributed to it with different
\* remaining times, and P1 runs with the larger one
C16_TwoAttributedValves ==
    /\ type = SMART_HOSE_TIMER /\ last.op = "update"
    /\ \E i \in 1..Len(schedules) :
          /\ AttributedRunning(schedules[i]) = {"Z1", "Z2"}
          /\ running_zones["Z1"].remaining > running_zones["Z2"].remaining
          /\ running_schedules[schedules[i].id].remaining = running_zones["Z1"].remaining

\* C16 witness of the other direction: a valve of P1's list runs attributed
\* to no program, and running_schedules is empty
C16_UnattributedValveRunsAlone ==
    /\ type = SMART_HOSE_TIMER /\ last.op = "update"
    /\ running_schedules = EmptyDict
    /\ \E i \in 1..Len(schedules) : \E z \in schedules[i].valveIds :
          /\ z \in DOMAIN running_zones
          /\ AttributedProgram(z, running_zones[z], valve_run_summaries, schedules)
                = NoProgram


-----------------------------------------------------------------------------
(* Properties of the polling interval (SpecPoller) *)

\* C9: after a poll, whenever the last rate-limit remaining is <= 0 and a
\* reset time later than now is known, in either form, the interval the
\* handler returns is the time until that reset, capped at 30 minutes.
C9_RateLimitedDelayIsTimeToReset ==
    (/\ last.op = "update"
     /\ api_rate_remaining.set /\ api_rate_remaining.v <= 0
     /\ api_rate_reset.set /\ api_rate_reset.v.t > now)
    => last.interval = Min(api_rate_reset.v.t - now, 30 * 60)

HOSE_CALLS_PER_POLL == 3
CallsPerPoll == IF type = CONTROLLER THEN CONTROLLER_CALLS_PER_POLL ELSE HOSE_CALLS_PER_POLL

\* nothing runs, no intent is pending and the rate limit is not exhausted
Idle ==
    /\ running_zones = EmptyDict
    /\ running_schedules = EmptyDict
    /\ \A id \in DOMAIN _pending_start : ~(_pending_start[id] > now)
    /\ ~RateLimited(api_rate_remaining)

\* C10: after a poll of an idle device, the interval the handler returns
\* keeps num_devices x calls per poll x polls per hour at or below 80.
C10_IdleIntervalKeepsCallsWithinCeiling ==
    (last.op = "update" /\ Idle) =>
        num_devices * CallsPerPoll * 3600 <= 80 * last.interval

-----------------------------------------------------------------------------
(* Properties of failed poll cycles (Spec) *)

\* the poll cycle in flight takes its last step
PollFinishes == pc \in {"summary", "schedule"} /\ pc' = "idle"

\* C11: when a request of a poll cycle has failed, the cycle still completes,
\* running_zones and running_schedules after it equal their values before
\* it, and the interval returned for the next poll is the idle interval.
C11_FailedPollKeepsRunningState ==
    [][(PollFinishes /\ RequestFailed) =>
          /\ last'.op = "update"
          /\ running_zones' = running_zones
          /\ running_schedules' = running_schedules
          /\ last'.interval = idle_polling_interval]_vars

-----------------------------------------------------------------------------
(* Properties of raising and cancelled poll cycles (SpecFailures) *)

\* C12: an error raised inside a poll cycle does not leave the cycle, and
\* the handler's state after the failed cycle is the state before it.
C12_PollErrorsAreContained ==
    last.op = "update_raised" =>
        /\ ~last.raised
        /\ last.before.known => Snapshot = last.before

\* C20: a poll cycle cancelled while it awaits an answer has committed
\* nothing: what the cycle assigns first (status, and zones and schedules or
\* base_station_connected) is as it was when the cycle began.
C20_CancelledPollCommitsNothing ==
    (last.op = "update_cancelled" /\ last.before.known) => Snapshot = last.before

-----------------------------------------------------------------------------
(* Properties of the program cache (SpecCache) *)

\* C13: a poll purges a program and marks it deleted only when its details
\* lookup was answered 404; a program whose lookup failed otherwise is still
\* in schedules, and not marked deleted, after the poll.
C13_PurgedOnlyOnNotFound ==
    [][HosePollFinishes =>
          /\ (_deleted_programs' \ _deleted_programs) \subseteq last'.lookups.not_found
          /\ \A p \in last'.lookups.transient :
                p \in Ids_(schedules') /\ p \notin _deleted_programs']_vars

\* C15: a program whose details are cached, that is not marked deleted and
\* that the summary of a poll does not list, is in schedules after the poll
\* with the enabled flag of its cached details, unless its details lookup in
\* that poll was answered 404.
C15_CachedProgramStaysVisible ==
    [][HosePollFinishes =>
          \A p \in (Ids_(_program_details) \ _deleted_programs)
                      \ (last'.lookups.listed \cup last'.lookups.not_found) :
              /\ p \in Ids_(schedules')
              /\ p \in Ids_(_program_details')
              /\ Lookup(schedules', p).enabled
                    = Lookup(_program_details', p).details.enabled]_vars

-----------------------------------------------------------------------------
(* Properties of the stored rate-limit headers (SpecHeaders) *)

HeadersProcessed == IF "headers" \in DOMAIN last THEN last.headers ELSE NoHeaders

\* C14: each of api_rate_limit, api_rate_remaining and api_rate_reset is left
\* as it was by a step whose response lacks that header, and a step that
\* changes one of them has processed a response carrying that header and has
\* stored exactly the header's value.
C14_AbsentHeaderKeepsStoredValue ==
    [][/\ api_rate_limit' # api_rate_limit =>
            HeadersProcessed'.limit.set /\ api_rate_limit' = HeadersProcessed'.limit
       /\ api_rate_remaining' # api_rate_remaining =>
            HeadersProcessed'.remaining.set
              /\ api_rate_remaining' = HeadersProcessed'.remaining
       /\ api_rate_reset' # api_rate_reset =>
            HeadersProcessed'.reset.set /\ api_rate_reset' = HeadersProcessed'.reset]_vars

\* a response with a remaining header and no reset header has been processed
\* while both a limit and a reset were stored: remaining is the header's, the
\* other two are still there
C14_RemainingAloneStored ==
    /\ last.op = "request"
    /\ last.headers.remaining.set
    /\ ~last.headers.limit.set /\ ~last.headers.reset.set
    /\ api_rate_remaining = last.headers.remaining
    /\ api_rate_limit.set /\ api_rate_reset.set

-----------------------------------------------------------------------------
(* Properties of running_schedules (SpecSchedules) *)

\* a zone in running_zones is attributed to schedule p: the controller's
\* entry names it (controller.py line 154), the hose timer's valve is
\* matched to it
BackedByRunningZone(p) ==
    IF type = CONTROLLER
    THEN \E z \in DOMAIN running_zones :
            Get(running_zones[z], "schedule_id", NoProgram) = p
    ELSE \E i \in 1..Len(schedules) :
            schedules[i].id = p /\ AttributedRunning(schedules[i]) # {}

\* C17: in every reachable state every entry of running_schedules has a zone
\* in running_zones that is attributed to that schedule.
C17_RunningScheduleIsBacked ==
    \A p \in DOMAIN running_schedules : BackedByRunningZone(p)

-----------------------------------------------------------------------------
(* Properties of concurrent poll cycles (SpecService) *)

\* C18: at no time are two poll cycles of one handler in flight, the cycle
\* awaited by the create_program service included.
C18_OnePollInFlight == ~(pc # "idle" /\ pc_service # "idle")

-----------------------------------------------------------------------------
(* Properties of operations issued during a poll cycle (Spec) *)

\* C19: when start(z) or stop(z) returns while a poll cycle is in flight,
\* an accepted start has left z with a pending start and z reads on, and a
\* stop has left z neither in running_zones nor pending and z reads off.
C19_IntentVisibleOnReturn ==
    (pc # "idle" /\ last.op \in {"start", "stop"} /\ ~last.raised) =>
        /\ (last.op = "start" /\ last.accepted) =>
              /\ PendingValid(_pending_start, last.id, now)
              /\ is_zone_optimistically_on(last.id)
        /\ last.op = "stop" =>
              /\ last.id \notin DOMAIN running_zones
              /\ last.id \notin DOMAIN _pending_start
              /\ ~is_zone_optimistically_on(last.id)

-----------------------------------------------------------------------------
(* Properties of the program attribution (SpecAttribution) *)

\* what lines 950-1060 read: of every valve running on a backend action its
\* start and direct program id, the run summaries, the programs as declared
AttributionInputs ==
    [valves |-> [z \in {x \in DOMAIN running_zones :
                            "start_time" \in DOMAIN running_zones[x]} |->
                    <<running_zones[z].start_time, running_zones[z].program_id>>],
     summaries |-> valve_run_summaries,
     programs |-> [i \in 1..Len(schedules) |->
                     <<schedules[i].id, schedules[i].valveIds,
                       schedules[i].plannedRuns>>]]

\* what the attribution decides: the programs that run, and their flags
AttributionResult ==
    [running |-> DOMAIN running_schedules,
     active |-> [i \in 1..Len(schedules) |-> schedules[i].active]]

\* z is the one running valve, and it runs on a backend action
RunsAlone(z) ==
    DOMAIN running_zones = {z} /\ "start_time" \in DOMAIN running_zones[z]

\* the poll has attributed the one running valve z to program p, or to none
\* (p = NoProgram): of the programs that list z exactly p is active and in
\* running_schedules
AttributedTo(z, p) ==
    \A i \in 1..Len(schedules) :
        /\ schedules[i].active <=> (z \in schedules[i].valveIds /\ schedules[i].id = p)
        /\ schedules[i].id \in DOMAIN running_schedules <=> schedules[i].active

\* the program id carried by the backend action of z
DirectProgram(z) == running_zones[z].program_id

\* run is a run of a program begun less than tolerance from the start of z
WithinTolerance(run, z, tolerance) ==
    /\ run # NoRun
    /\ run.source = "program"
    /\ run.program_id # NoProgram
    /\ run.start - running_zones[z].start_time < tolerance
    /\ running_zones[z].start_time - run.start < tolerance

\* the program the run summary of z gives: the previous run's within 3600 s,
\* else the next run's within 1800 s, else none
SummaryProgramOf(z) ==
    IF z \notin DOMAIN valve_run_summaries THEN NoProgram
    ELSE IF WithinTolerance(valve_run_summaries[z].previous_run, z, 3600)
         THEN valve_run_summaries[z].previous_run.program_id
    ELSE IF WithinTolerance(valve_run_summaries[z].next_run, z, 1800)
         THEN valve_run_summaries[z].next_run.program_id
    ELSE NoProgram

\* program q lists z and plans a run less than 3600 s from the start of z
PlansNear(q, z) ==
    /\ z \in q.valveIds
    /\ \E j \in 1..Len(q.plannedRuns) :
          /\ q.plannedRuns[j].wf
          /\ q.plannedRuns[j].t - running_zones[z].start_time < 3600
          /\ running_zones[z].start_time - q.plannedRuns[j].t < 3600

-----------------------------------------------------------------------------
(* Properties of the backend-derived running set (Spec) *)

\* a stop of valve z is on record, issued while the backend action now
\* reported for z was inside its window, and z has not been started since
StoppedInsideWindow(z) ==
    /\ z \in DOMAIN _force_stopped
    /\ z \in DOMAIN zones
    /\ HasParsedAction(zones[z])
    /\ StartTime(zones[z]) <= _force_stopped[z]
    /\ _force_stopped[z] <= EndTimeBuffer(zones[z])
    /\ z \notin DOMAIN _pending_start
    /\ z \notin DOMAIN running_zones

\* C22: a poll that sees for a stopped valve the backend action that was
\* inside its window when the valve was stopped does not put the valve back
\* into running_zones.
C22_StoppedValveNotResurrected ==
    [][HosePollFinishes =>
          \A z \in Zones : StoppedInsideWindow(z) => z \notin DOMAIN running_zones']_vars

\* seconds since the stop of z on record
SinceStop(z) == now - _force_stopped[z]

\* the poll has taken nothing about z from the backend: an entry of z in
\* running_zones is the one kept from before, a completion of z is the one
\* recorded before or the expected end tracked before, an expected end of z
\* is the one tracked before
NothingFromBackend(z) ==
    /\ z \in DOMAIN running_zones' =>
          z \in DOMAIN running_zones /\ running_zones'[z] = running_zones[z]
    /\ z \in DOMAIN _last_watering_completed' =>
          \/ /\ z \in DOMAIN _last_watering_completed
             /\ _last_watering_completed'[z] = _last_watering_completed[z]
          \/ /\ z \in DOMAIN _expected_end_times
             /\ _last_watering_completed'[z] = _expected_end_times[z]
    /\ z \in DOMAIN _expected_end_times' =>
          z \in DOMAIN _expected_end_times
            /\ _expected_end_times'[z] = _expected_end_times[z]

\* the poll has used the backend's action of z: inside its window, and not
\* skipped as stale, z runs on that action
BackendUsed(z) ==
    (InWindow(zones[z], now) /\ ~StaleSkips(z, zones[z], now, _last_watering_completed))
        => /\ z \in DOMAIN running_zones'
           /\ running_zones'[z].start_time = StartTime(zones[z])
           /\ _expected_end_times'[z] = EndTime(zones[z])

\* C23: in a poll, for a valve with a backend action whose stop on record is
\* less than 30 s old, nothing is taken from the backend and the record
\* stays; when the stop is 30 s old or older the record is cleared and the
\* backend action is used.
C23_ForceStopWindow ==
    [][HosePollFinishes =>
          \A z \in DOMAIN _force_stopped :
              (z \in DOMAIN zones /\ HasParsedAction(zones[z])) =>
                  IF SinceStop(z) < FORCE_STOP_WINDOW
                  THEN /\ NothingFromBackend(z)
                       /\ z \in DOMAIN _force_stopped'
                  ELSE /\ z \notin DOMAIN _force_stopped'
                       /\ BackendUsed(z)]_vars

\* C23 witness: a poll has completed less than 30 s after the stop of a valve
\* whose backend action is inside its window, and the valve is not running
C23_IgnoredInsideWindow ==
    /\ type = SMART_HOSE_TIMER /\ last.op = "update"
    /\ \E z \in DOMAIN _force_stopped :
          /\ SinceStop(z) < FORCE_STOP_WINDOW
          /\ z \in DOMAIN zones /\ HasParsedAction(zones[z])
          /\ InWindow(zones[z], now)
          /\ z \notin DOMAIN running_zones

\* the backend action of valve z reaches the window test of the poll: it
\* parses, no stop of the last 30 s hides it, it is not skipped as stale
ReachesWindowTest(z) ==
    /\ z \in DOMAIN zones
    /\ HasParsedAction(zones[z])
    /\ ~(z \in DOMAIN _force_stopped /\ SinceStop(z) < FORCE_STOP_WINDOW)
    /\ ~StaleSkips(z, zones[z], now, _last_watering_completed)

ActionStart(z) == zones[z].lastWateringAction.start.t
ActionDuration(z) == zones[z].lastWateringAction.durationSeconds

\* the poll leaves z running on its backend action, with remaining r
PlacedWithRemaining(z, r) ==
    /\ z \in DOMAIN running_zones'
    /\ "start_time" \in DOMAIN running_zones'[z]
    /\ running_zones'[z].start_time = ActionStart(z)
    /\ running_zones'[z].remaining = r

\* the poll leaves z out, or with the entry it had
NotPlaced(z) ==
    z \in DOMAIN running_zones' =>
        z \in DOMAIN running_zones /\ running_zones'[z] = running_zones[z]

\* C24 as stated: a backend action (start, duration) that is not skipped is
\* placed in the running set exactly when start <= now <= start + duration
\* + 30, with remaining max(0, start + duration + 30 - now).
C24_RemainingToEffectiveEnd ==
    [][HosePollFinishes =>
          \A z \in Zones : ReachesWindowTest(z) =>
              IF ActionStart(z) <= now
                   /\ now <= ActionStart(z) + ActionDuration(z) + END_TIME_BUFFER
              THEN PlacedWithRemaining(z,
                     Max(0, ActionStart(z) + ActionDuration(z) + END_TIME_BUFFER - now))
              ELSE NotPlaced(z)]_vars

\* C24 amended: a backend action (start, duration) that is not skipped is
\* placed in the running set exactly when start <= now <= start + duration
\* + 30, with remaining max(0, start + duration - now): the 30 s extend the
\* window, not the remaining time; every entry of running_zones has a
\* remaining of 0 or more.
C24_RemainingToActionEnd ==
    [][HosePollFinishes =>
          /\ \A z \in Zones : ReachesWindowTest(z) =>
                IF ActionStart(z) <= now
                     /\ now <= ActionStart(z) + ActionDuration(z) + END_TIME_BUFFER
                THEN PlacedWithRemaining(z,
                       Max(0, ActionStart(z) + ActionDuration(z) - now))
                ELSE NotPlaced(z)
          /\ \A z \in DOMAIN running_zones' : running_zones'[z].remaining >= 0]_vars

\* C24 witness: after a poll a valve runs inside the 30 s that follow the
\* end of its action, with nothing remaining
C24_RunningInsideBuffer ==
    /\ type = SMART_HOSE_TIMER /\ last.op = "update"
    /\ \E z \in DOMAIN running_zones :
          /\ "start_time" \in DOMAIN running_zones[z]
          /\ now > running_zones[z].start_time + running_zones[z].duration
          /\ running_zones[z].remaining = 0

-----------------------------------------------------------------------------
(* Properties of the attribution strategies (SpecAttribution) *)

\* C25: after a poll, the one running valve z is attributed to the program
\* id of its backend action when it carries one, whatever the run summary
\* and the planned runs say; without one, to the program the run summary
\* gives, whatever the planned runs say; and only when neither gives a
\* program, to a program that lists z and plans a run near its start, or to
\* none.
C25_FirstStrategyWins ==
    last.op = "update" =>
        \A z \in Zones \cup ProgramZones : RunsAlone(z) =>
            IF DirectProgram(z) # NoProgram
            THEN AttributedTo(z, DirectProgram(z))
            ELSE IF SummaryProgramOf(z) # NoProgram
                 THEN AttributedTo(z, SummaryProgramOf(z))
                 ELSE \/ AttributedTo(z, NoProgram)
                      \/ \E i \in 1..Len(schedules) :
                            /\ PlansNear(schedules[i], z)
                            /\ AttributedTo(z, schedules[i].id)

\* C25 witness: Z1 carries P2's id while its previous run is P1's and P1
\* plans a run near its start, and P2 is the program that runs
C25_DirectIdBeatsSummaryAndPlan ==
    /\ last.op = "update"
    /\ RunsAlone("Z1")
    /\ DirectProgram("Z1") = "P2"
    /\ SummaryProgramOf("Z1") = "P1"
    /\ \E i \in 1..Len(schedules) :
          schedules[i].id = "P1" /\ PlansNear(schedules[i], "Z1")
    /\ DOMAIN running_schedules = {"P2"}

\* C26: after a poll, for the one running valve z whose backend action
\* carries no program id and which has a run summary: a previous run of a
\* program less than 3600 s from the start of z attributes z to that
\* program; when the previous run does not match (none, a quick run, or
\* 3600 s or more away), a next run of a program less than 1800 s away
\* attributes z to its program; and when neither matches and no program
\* plans a run near the start, z stays unattributed.
C26_RunSummaryAttribution ==
    last.op = "update" =>
        \A z \in Zones \cup ProgramZones :
            (/\ RunsAlone(z)
             /\ DirectProgram(z) = NoProgram
             /\ z \in DOMAIN valve_run_summaries) =>
                LET prev == valve_run_summaries[z].previous_run
                    next == valve_run_summaries[z].next_run
                    planned == \E i \in 1..Len(schedules) : PlansNear(schedules[i], z)
                IN  /\ WithinTolerance(prev, z, 3600) => AttributedTo(z, prev.program_id)
                    /\ (~WithinTolerance(prev, z, 3600) /\ WithinTolerance(next, z, 1800))
                          => AttributedTo(z, next.program_id)
                    /\ (~WithinTolerance(prev, z, 3600) /\ ~WithinTolerance(next, z, 1800)
                          /\ ~planned) => AttributedTo(z, NoProgram)

\* C26 witness: the previous run of Z1 is P1's but exactly 3600 s from its
\* start, the next run is P2's and near, and P2 is the program that runs
C26_NextRunAfterPreviousAtEdge ==
    /\ last.op = "update"
    /\ RunsAlone("Z1")
    /\ DirectProgram("Z1") = NoProgram
    /\ "Z1" \in DOMAIN valve_run_summaries
    /\ valve_run_summaries["Z1"].previous_run # NoRun
    /\ valve_run_summaries["Z1"].previous_run.source = "program"
    /\ running_zones["Z1"].start_time - valve_run_summaries["Z1"].previous_run.start = 3600
    /\ WithinTolerance(valve_run_summaries["Z1"].next_run, "Z1", 1800)
    /\ DOMAIN running_schedules = {"P2"}

\* the distances of the planned runs of program q from the start of z
PlannedDistances(q, z) ==
    {Abs(q.plannedRuns[j].t - running_zones[z].start_time) :
        j \in {k \in 1..Len(q.plannedRuns) : q.plannedRuns[k].wf}}

\* program i of schedules lists z, and no program listing z plans a run
\* nearer to the start of z, nor an earlier one a run as near
NearestPlanned(i, z) ==
    /\ z \in schedules[i].valveIds
    /\ \E d \in PlannedDistances(schedules[i], z) :
          \A k \in 1..Len(schedules) : z \in schedules[k].valveIds =>
              \A e \in PlannedDistances(schedules[k], z) :
                  e > d \/ (e = d /\ i <= k)

\* C27: after a poll, for the one running valve z that neither a direct
\* program id nor the run summary attributes: z is attributed to the
\* program that lists it and plans the run nearest to its start, the
\* earlier one in schedules when two are equally near, provided the
\* distance is less than 3600 s; and to none otherwise, as when no program
\* listing z plans a run.
C27_NearestPlannedRunWins ==
    last.op = "update" =>
        \A z \in Zones \cup ProgramZones :
            (/\ RunsAlone(z)
             /\ DirectProgram(z) = NoProgram
             /\ SummaryProgramOf(z) = NoProgram) =>
                /\ \A i \in 1..Len(schedules) : NearestPlanned(i, z) =>
                      IF \E d \in PlannedDistances(schedules[i], z) : d < 3600
                      THEN AttributedTo(z, schedules[i].id)
                      ELSE AttributedTo(z, NoProgram)
                /\ (\A i \in 1..Len(schedules) : ~NearestPlanned(i, z))
                      => AttributedTo(z, NoProgram)

\* C27 witness: P2 is declared before P1, both list Z1 and plan a run
\* equally near its start, and P2 is the program that runs
C27_TieGoesToFirstDeclared ==
    /\ last.op = "update"
    /\ RunsAlone("Z1")
    /\ DirectProgram("Z1") = NoProgram
    /\ SummaryProgramOf("Z1") = NoProgram
    /\ Len(schedules) = 2
    /\ schedules[1].id = "P2"
    /\ "Z1" \in schedules[1].valveIds \cap schedules[2].valveIds
    /\ PlannedDistances(schedules[1], "Z1") # {}
    /\ PlannedDistances(schedules[1], "Z1") = PlannedDistances(schedules[2], "Z1")
    /\ DOMAIN running_schedules = {"P2"}

-----------------------------------------------------------------------------
(* Properties of the computed poll delay (SpecPoller) *)

\* the rate-limit safety floor for the handler's device count
SafetyFloor == calculate_safe_polling_interval(num_devices)

\* C28: after a poll of either handler type, when nothing runs, no intent
\* is pending and the rate limit is not exhausted, the interval the handler
\* returns is the larger of the safety floor and the configured idle
\* interval.
C28_IdleDelayIsFloorOrIdleInterval ==
    (last.op = "update" /\ Idle) =>
        last.interval = Max(SafetyFloor, idle_polling_interval)

\* a zone or a schedule runs or an intent is pending, and the rate limit is
\* not exhausted
Watering ==
    /\ \/ running_zones # EmptyDict
       \/ running_schedules # EmptyDict
       \/ \E id \in DOMAIN _pending_start : _pending_start[id] > now
    /\ ~RateLimited(api_rate_remaining)

\* every running zone and schedule has two minutes or more left
TwoMinutesLeft ==
    /\ \A z \in DOMAIN running_zones : Get(running_zones[z], "remaining", 0) >= 2 * 60
    /\ \A p \in DOMAIN running_schedules :
          Get(running_schedules[p], "remaining", 0) >= 2 * 60

\* C29: after a poll of either handler type that leaves something running
\* or pending, the interval the handler returns is never below the safety
\* floor; it is the larger of the floor and the configured active interval
\* while two minutes or more remain, and at most that when less remain.
C29_ActiveDelayRespectsFloor ==
    (last.op = "update" /\ Watering) =>
        /\ last.interval >= SafetyFloor
        /\ last.interval <= Max(SafetyFloor, active_polling_interval)
        /\ TwoMinutesLeft =>
              last.interval = Max(SafetyFloor, active_polling_interval)

-----------------------------------------------------------------------------
(* Properties of the safety floor (SpecFloor) *)

\* the interval that keeps n devices at 2 calls per poll within 80 calls an
\* hour
LinearFloor(n) == (n * 2 * 3600) \div 80

\* the floor stated for n devices: linear in n, within 30 s and 900 s, a
\* count below 1 taken as 1
StatedFloor(n) ==
    LET linear == LinearFloor(IF n < 1 THEN 1 ELSE n)
    IN  IF linear < 30 THEN 30 ELSE IF linear > 900 THEN 900 ELSE linear

\* C30: for every device count n up to the handler's, counts below 1
\* included, the safety floor lies within [30, 900], equals
\* floor(n x 2 x 3600 / 80) where that lies within the bounds, does not
\* decrease from n to n + 1, and for n < 1 is the floor of one device; and
\* a controller poll that leaves a zone running with five minutes or less
\* returns exactly the stated floor of its device count.
C30_SafetyFloorIsClampedLinear ==
    /\ \A n \in (0 - 1)..num_devices :
          LET floor == calculate_safe_polling_interval(n)
          IN  /\ floor \in 30..900
              /\ floor = StatedFloor(n)
              /\ LinearFloor(n) \in 30..900 => floor = LinearFloor(n)
              /\ floor <= calculate_safe_polling_interval(n + 1)
              /\ n < 1 => floor = calculate_safe_polling_interval(1)
    /\ (/\ last.op = "update"
        /\ running_zones # EmptyDict
        /\ CtrlRemainingSeconds(running_zones, running_schedules) <= 5 * 60)
          => last.interval = StatedFloor(num_devices)

\* C30 witness: a controller among more than ten devices is polled with a
\* zone running and gets the upper bound
C30_ManyDevicesGetUpperBound ==
    /\ last.op = "update"
    /\ running_zones # EmptyDict
    /\ num_devices > 10
    /\ LinearFloor(num_devices) > 900
    /\ last.interval = 900

-----------------------------------------------------------------------------
(* Properties of the coordinator's interval (SpecPoller) *)

\* C31: after every completed poll cycle the coordinator's update interval
\* is the interval the handler computed from its state at the end of that
\* cycle.
C31_IntervalRecomputedEveryCycle ==
    last.op = "update" => update_interval = last.interval

-----------------------------------------------------------------------------
(* Properties of operations that interleave with a poll cycle (Spec) *)

\* the controller's poll cycle, in flight since before the stop of z
\* returned, takes its last step; z is absent as the stop left it
FinishesAfterStop(z) ==
    /\ type = CONTROLLER
    /\ pc = "schedule" /\ pc' = "idle"
    /\ last.op = "stop" /\ last.id = z /\ ~last.raised
    /\ z \notin DOMAIN running_zones
    /\ last'.op = "update"

\* C32: when the controller's stop(z) has returned while a poll cycle was in
\* flight, then after that cycle's last step, whatever the backend answered
\* to it, z is still absent from running_zones and does not read on.
C32_PollInFlightKeepsStop ==
    [][\A z \in Zones : FinishesAfterStop(z) =>
          /\ z \notin DOMAIN running_zones'
          /\ ~CtrlIsOn(z)']_vars

\* the backend reports for z an action whose window, with the buffer of
\* 30 s, holds now
BackendReportsRunning(z) ==
    /\ z \in DOMAIN zones
    /\ HasParsedAction(zones[z])
    /\ ActionStart(z) <= now
    /\ now <= ActionStart(z) + ActionDuration(z) + 30

\* z was in running_zones before the poll and its pending start has not
\* expired
KeptOnPendingStart(z) ==
    /\ z \in DOMAIN running_zones
    /\ z \in DOMAIN _pending_start
    /\ _pending_start[z] > now

\* C33: every zone in running_zones after a completed hose-timer poll is
\* one the backend reports inside its window or one kept on an unexpired
\* pending start; so a zone kept only optimistically is dropped by the
\* first poll completing after its pending start has expired.
C33_RunningZonesAreJustified ==
    [][HosePollFinishes =>
          \A z \in DOMAIN running_zones' :
              BackendReportsRunning(z) \/ KeptOnPendingStart(z)]_vars

\* C33 witness: a poll has dropped Z1, whose pending start has expired and
\* which the backend does not report inside a window
C33_DroppedAfterPendingExpired ==
    /\ type = SMART_HOSE_TIMER
    /\ last.op = "update"
    /\ "Z1" \in last.dropped
    /\ "Z1" \in DOMAIN _pending_start
    /\ _pending_start["Z1"] <= now
    /\ ~BackendReportsRunning("Z1")
    /\ "Z1" \notin DOMAIN running_zones

-----------------------------------------------------------------------------
(* Properties of polling under an exhausted rate limit (SpecBackoff) *)

\* a poll has returned with the budget stored as spent (hose timer: 0 or
\* less; controller: 1 or less) until the reset time r, still ahead
SpentUntil(r) ==
    /\ last.op = "update"
    /\ api_rate_remaining.set
    /\ api_rate_remaining.v <= (IF type = CONTROLLER THEN 1 ELSE 0)
    /\ api_rate_reset.set
    /\ api_rate_reset.v.t = r
    /\ now < r

\* a request of a poll cycle has just been answered, at r or later
RequestedSince(r) == last.op = "request" /\ now >= r

\* C34: once a poll has stored a spent budget with a reset time r ahead, a
\* poll cycle that issues backend requests follows at r or later; and the
\* interval the hose timer's coordinator waits after a poll under a spent
\* budget is at most 30 minutes.
C34_PollingResumesAfterReset ==
    /\ \A r \in BackoffResets : SpentUntil(r) ~> RequestedSince(r)
    /\ [](( /\ type = SMART_HOSE_TIMER
            /\ last.op = "update"
            /\ RateLimited(api_rate_remaining))
           => (last.interval <= 30 * 60 /\ update_interval <= 30 * 60))

\* C34 witness: the controller issues a request at the reset time of the
\* spent budget it still has stored, after a poll it skipped
C34_ControllerPollsAtReset ==
    /\ type = CONTROLLER
    /\ last.op = "request"
    /\ api_rate_remaining.set /\ api_rate_remaining.v <= 1
    /\ api_rate_reset.set /\ api_rate_reset.v.form = "epoch"
    /\ api_rate_reset.v.t = Epoch + 2 * TickSeconds
    /\ now >= api_rate_reset.v.t
    /\ _fast_poll_count >= 2

-----------------------------------------------------------------------------
(* Properties of the controller's rate-limit guard (SpecPoller) *)

\* the stored remaining is 1 or less and now is before the stored reset,
\* both readable as integers
GuardApplies ==
    /\ api_rate_remaining.set /\ api_rate_reset.set
    /\ api_rate_reset.v.form = "epoch"
    /\ api_rate_remaining.v <= 1
    /\ now < api_rate_reset.v.t

\* the coordinator's poll of the controller begins in this step
CtrlPollBegins ==
    /\ type = CONTROLLER
    /\ pc = "idle"
    /\ last'.op \in {"update", "request", "update_raised"}

\* C35: a poll of the controller that begins while the guard applies is
\* skipped: no request is issued, and zones, schedules, running_zones,
\* running_schedules, status, the pending-start map and the stored
\* rate-limit values are left as they were.
C35_SkippedPollChangesNothing ==
    [][(CtrlPollBegins /\ GuardApplies) =>
          /\ last'.op = "update" /\ last'.skipped
          /\ pc' = "idle"
          /\ UNCHANGED <<zones, schedules, running_zones, running_schedules,
                         status, _pending_start, api_rate_limit,
                         api_rate_remaining, api_rate_reset>>]_vars

\* C35 witness: a poll has been skipped while a zone runs
C35_SkippedWhileRunning ==
    /\ type = CONTROLLER
    /\ last.op = "update" /\ last.skipped
    /\ GuardApplies
    /\ running_zones # EmptyDict

-----------------------------------------------------------------------------
(* Properties of the programs marked deleted (SpecCache) *)

\* the programs whose details lookup failed in the poll that has finished
FailedLookups(l) == l.not_found \cup l.transient

\* C36: no step removes an id from _deleted_programs; and after every
\* completed poll no entry of schedules has an id in the set, and for no id
\* that was in the set before the poll has the poll looked the details up:
\* none failed and none is cached, even when the summary lists the id again.
C36_DeletedProgramsStayDeleted ==
    [][/\ _deleted_programs \subseteq _deleted_programs'
       /\ HosePollFinishes =>
             /\ \A i \in 1..Len(schedules') :
                   schedules'[i].id \notin _deleted_programs'
             /\ \A p \in _deleted_programs :
                   /\ p \notin FailedLookups(last'.lookups)
                   /\ p \notin Ids_(_program_details')]_vars

\* C36 witness: a poll whose summary lists P1 again, marked deleted by an
\* earlier poll, has looked nothing up and left P1 out of schedules
C36_ReappearedStaysOut ==
    /\ last.op = "update"
    /\ "P1" \in _deleted_programs
    /\ "P1" \in last.lookups.listed
    /\ FailedLookups(last.lookups) = {}
    /\ "P1" \notin Ids_(schedules)
    /\ "P1" \notin Ids_(_program_details)

------------------------------------------------------------------------------
(* Properties of a rejected start (Spec) *)

\* start(z, d) of either handler returns or raises in this step
StartReturns == last'.op = "start" /\ pc' = pc /\ now' = now

\* C37: a start(z, d) whose request the backend rejected with a status of
\* 400 or more, so that the start raises, leaves running_zones and the
\* pending-start map as they were, on the hose timer and on the controller.
C37_RejectedStartChangesNothing ==
    [][(StartReturns /\ last'.raised) =>
          /\ ~last'.accepted
          /\ UNCHANGED <<running_zones, _pending_start>>]_vars

\* C37 witness: a start of a zone was rejected during a poll cycle of the
\* controller, and the zone is neither running nor pending
C37_RejectedStartLeftZoneOff ==
    /\ type = CONTROLLER
    /\ pc # "idle"
    /\ last.op = "start" /\ last.raised
    /\ last.id \notin DOMAIN running_zones
    /\ last.id \notin DOMAIN _pending_start

------------------------------------------------------------------------------
(* Properties of the hose timer's stop (Spec) *)

\* stop(z) of the hose timer returns or raises in this step
HoseStopReturns ==
    type = SMART_HOSE_TIMER /\ last'.op = "stop" /\ pc' = pc /\ now' = now

\* C38: whatever the backend answers to the stop request of the hose timer's
\* stop(z), also when the request fails and the stop raises, the force-stop
\* time of z is the time of the call, and z is neither in running_zones nor
\* in the pending-start map.
C38_StopActsBeforeRequest ==
    [][HoseStopReturns =>
          /\ last'.id \in DOMAIN _force_stopped'
          /\ _force_stopped'[last'.id] = now
          /\ last'.id \notin DOMAIN running_zones'
          /\ last'.id \notin DOMAIN _pending_start']_vars

\* C38 witness: a stop of a valve with an open start window raised, and the
\* valve is recorded as stopped now and is neither running nor pending
C38_FailedStopStillCleared ==
    /\ type = SMART_HOSE_TIMER
    /\ last.op = "stop" /\ last.raised /\ last.pendingBefore
    /\ last.id \in DOMAIN _force_stopped
    /\ _force_stopped[last.id] = now
    /\ last.id \notin DOMAIN running_zones
    /\ last.id \notin DOMAIN _pending_start

====
